---- MODULE Spec2Model ----
(***************************************************************************)
(* Model of the configuration subsystem of genever (package config):       *)
(* Manager (NewManager, Reload, Subscribe, notify, startWatchers), the     *)
(* Binder (decode + validate), mergeMaps and diffEvent.                    *)
(*                                                                         *)
(* The bound record is the AppConfig shape the Manager tests use:          *)
(*   Name string  `config:"name" validate:"required"`                      *)
(*   Port int     `config:"port" validate:"required,min=1,max=65535"`      *)
(*   Database struct { Host string `config:"host"`; Port int `config:"port"` } *)
(***************************************************************************)
EXTENDS Integers, Sequences, FiniteSets, TLC

\* ------------------------------------------------------------------ bounds

\* Total number of Subscribe calls.
MaxSubs == 2
\* Buffer size of a buffered subscriber channel.
Cap == 1

\* validate:"min=1,max=65535" on Port
MinPort == 1
MaxPort == 65535

\* ------------------------------------------------- configuration trees

\* A tree is a function from string keys to values; a value is a tagged
\* record: t is "int", "str", "map" or "nil".
EmptyTree == <<>>
I(n) == [t |-> "int", n |-> n, s |-> "", m |-> EmptyTree]
S(s) == [t |-> "str", n |-> 0, s |-> s, m |-> EmptyTree]
M(m) == [t |-> "map", n |-> 0, s |-> "", m |-> m]
Nil == [t |-> "nil", n |-> 0, s |-> "", m |-> EmptyTree]
\* What a lookup gives for a key the map does not hold.
NoKey == [t |-> "absent", n |-> 0, s |-> "", m |-> EmptyTree]
\* A sequence value ([]any), named by its elements written out.
Q(s) == [t |-> "seq", n |-> 0, s |-> s, m |-> EmptyTree]

Has(tree, k) == k \in DOMAIN tree

\* Mutant of mergeMaps: no recursion into nested trees (dst[k] = v always).
mergeMapsShallow(dst, src) ==
    [k \in DOMAIN dst \cup DOMAIN src |->
        IF k \in DOMAIN src THEN src[k] ELSE dst[k]]

RECURSIVE mergeMapsSkipNil(_, _)
\* Mutant of mergeMaps: a nil value in src is not an override.
mergeMapsSkipNil(dst, src) ==
    [k \in DOMAIN dst \cup {j \in DOMAIN src : src[j] # Nil} |->
        IF k \in DOMAIN src /\ src[k] # Nil
        THEN IF /\ src[k].t = "map"
                /\ k \in DOMAIN dst
                /\ dst[k].t = "map"
             THEN M(mergeMapsSkipNil(dst[k].m, src[k].m))
             ELSE src[k]
        ELSE dst[k]]

RECURSIVE mergeMaps(_, _)
\* mergeMaps(dst, src): the contents of dst after the call.
mergeMaps(dst, src) ==
    [k \in DOMAIN dst \cup DOMAIN src |->
        IF k \in DOMAIN src
        THEN IF /\ src[k].t = "map"
                /\ k \in DOMAIN dst
                /\ dst[k].t = "map"
             THEN M(mergeMaps(dst[k].m, src[k].m))
             ELSE src[k]
        ELSE dst[k]]

\* ---------------------------------------------- trees as Go map objects

\* A Go map is a reference: the heap is a sequence of map objects, an object
\* is a function from keys to values, and a nested map is held as a
\* reference to another object.
Ref(id) == [t |-> "ref", n |-> id, s |-> "", m |-> EmptyTree]

\* obj[k] = v
SetKey(obj, k, v) ==
    [x \in DOMAIN obj \cup {k} |-> IF x = k THEN v ELSE obj[x]]

RECURSIVE Store(_, _)
RECURSIVE StoreKeys(_, _, _, _)
\* The heap after a fresh map object with the contents of the tree, nested
\* trees as fresh objects of their own, has been made; the new object is the
\* one at Len(heap) + 1.
Store(heap, tree) ==
    StoreKeys(Append(heap, EmptyTree), Len(heap) + 1, tree, DOMAIN tree)
StoreKeys(heap, id, tree, keys) ==
    IF keys = {} THEN heap
    ELSE LET k == CHOOSE x \in keys : TRUE
             v == tree[k]
         IN  IF v.t = "map"
             THEN LET h1 == Store(heap, v.m)
                  IN  StoreKeys([h1 EXCEPT ![id] = SetKey(@, k, Ref(Len(heap) + 1))],
                                id, tree, keys \ {k})
             ELSE StoreKeys([heap EXCEPT ![id] = SetKey(@, k, v)],
                            id, tree, keys \ {k})

RECURSIVE Deep(_, _)
\* The tree a map object holds, nested objects read through.
Deep(heap, id) ==
    [k \in DOMAIN heap[id] |->
        IF heap[id][k].t = "ref" THEN M(Deep(heap, heap[id][k].n))
        ELSE heap[id][k]]

RECURSIVE mergeKeysHIntoSrc(_, _, _, _)
\* Mutant of mergeMapsH: where both sides hold a map, dst's map is merged
\* into src's map, which is then stored in dst.
mergeKeysHIntoSrc(heap, dst, src, keys) ==
    IF keys = {} THEN heap
    ELSE LET k == CHOOSE x \in keys : TRUE
             v == heap[src][k]
             h1 == IF /\ v.t = "ref"
                      /\ k \in DOMAIN heap[dst]
                      /\ heap[dst][k].t = "ref"
                   THEN mergeKeysHIntoSrc(heap, v.n, heap[dst][k].n,
                                          DOMAIN heap[heap[dst][k].n])
                   ELSE heap
         IN  mergeKeysHIntoSrc([h1 EXCEPT ![dst] = SetKey(@, k, v)],
                               dst, src, keys \ {k})
mergeMapsHIntoSrc(heap, dst, src) ==
    mergeKeysHIntoSrc(heap, dst, src, DOMAIN heap[src])

RECURSIVE mergeMapsH(_, _, _)
RECURSIVE mergeKeysH(_, _, _, _)
\* mergeMaps on map objects: the heap after mergeMaps(dst, src). The loop
\* over src's keys: a map value whose key holds a map in dst is merged into
\* that map; any other value is stored in dst as it is, a map value being
\* stored as the reference it is.
mergeKeysH(heap, dst, src, keys) ==
    IF keys = {} THEN heap
    ELSE LET k == CHOOSE x \in keys : TRUE
             v == heap[src][k]
         IN  mergeKeysH(IF /\ v.t = "ref"
                           /\ k \in DOMAIN heap[dst]
                           /\ heap[dst][k].t = "ref"
                        THEN mergeMapsH(heap, heap[dst][k].n, v.n)
                        ELSE [heap EXCEPT ![dst] = SetKey(@, k, v)],
                        dst, src, keys \ {k})
mergeMapsH(heap, dst, src) ==
    mergeKeysH(heap, dst, src, DOMAIN heap[src])

\* ------------------------------------------------------------- the record

\* An int field of the record. Go's int has 64 bits on the build and an
\* integer of this module 32, so the field is held as its sign and its
\* magnitude in four limbs of six decimal digits, highest first; Int64(n)
\* is the field that holds n.
Int64(n) ==
    [neg |-> n < 0,
     m |-> <<0, 0, (IF n < 0 THEN 0 - n ELSE n) \div 1000000,
             (IF n < 0 THEN 0 - n ELSE n) % 1000000>>]

\* A string field of the record, as the two words of its header in
\* memory: the pointer to the bytes, held as the bytes it points to, and
\* the length. GoString(s) is the field that holds s.
GoString(s) == [Data |-> s, Len |-> Len(s)]

ZeroDatabase == [Host |-> GoString(""), Port |-> Int64(0)]
ZeroCfg ==
    [Name |-> GoString(""), Port |-> Int64(0), Database |-> ZeroDatabase]

\* The machine words of the record in memory: a string is two words, an
\* int one.
Words ==
    {"Name.Data", "Name.Len", "Port", "Database.Host.Data",
     "Database.Host.Len", "Database.Port"}

\* The word w of the record.
Word(rec, w) ==
    CASE w = "Name.Data" -> rec.Name.Data
      [] w = "Name.Len" -> rec.Name.Len
      [] w = "Port" -> rec.Port
      [] w = "Database.Host.Data" -> rec.Database.Host.Data
      [] w = "Database.Host.Len" -> rec.Database.Host.Len
      [] OTHER -> rec.Database.Port

\* The record after the word w of the record from has been stored in it.
StoreWord(rec, from, w) ==
    CASE w = "Name.Data" -> [rec EXCEPT !.Name.Data = from.Name.Data]
      [] w = "Name.Len" -> [rec EXCEPT !.Name.Len = from.Name.Len]
      [] w = "Port" -> [rec EXCEPT !.Port = from.Port]
      [] w = "Database.Host.Data" ->
            [rec EXCEPT !.Database.Host.Data = from.Database.Host.Data]
      [] w = "Database.Host.Len" ->
            [rec EXCEPT !.Database.Host.Len = from.Database.Host.Len]
      [] OTHER -> [rec EXCEPT !.Database.Port = from.Database.Port]

\* Struct fields in declaration order, and the config tag of each.
FieldOrder == <<"Name", "Port", "Database">>
Fields == {"Name", "Port", "Database"}

\* The value of a character as a digit, as strconv.ParseUint takes it: 0 to
\* 9, then the letters in either case from 10 on; 36 for any other
\* character, which is a digit in no base.
digitVal(c) ==
    CASE c = "0" -> 0 [] c = "1" -> 1 [] c = "2" -> 2 [] c = "3" -> 3
      [] c = "4" -> 4 [] c = "5" -> 5 [] c = "6" -> 6 [] c = "7" -> 7
      [] c = "8" -> 8 [] c = "9" -> 9
      [] OTHER ->
           LET at == {i \in 1..26 :
                         c \in {SubSeq("abcdefghijklmnopqrstuvwxyz", i, i),
                                SubSeq("ABCDEFGHIJKLMNOPQRSTUVWXYZ", i, i)}}
           IN  IF at = {} THEN 36 ELSE 9 + CHOOSE i \in at : TRUE

\* n*base + d of the digit loop. The number is held as four limbs of six
\* decimal digits, highest first, so that the 64-bit range can be told; a
\* first limb of a million or more stands for a number past that range and
\* is left as it is.
mulAdd(m, base, d) ==
    LET t0 == m[4] * base + d
        t1 == m[3] * base + (t0 \div 1000000)
        t2 == m[2] * base + (t1 \div 1000000)
    IN  IF m[1] >= 1000000 THEN m
        ELSE <<m[1] * base + (t2 \div 1000000), t2 % 1000000,
               t1 % 1000000, t0 % 1000000>>

RECURSIVE parseDigits(_, _, _)
\* strconv.ParseUint with base 0, its loop over the characters left, r
\* being the outcome so far: an underscore is noted and passed over, any
\* other character must be a digit below the base. (next and rest, each
\* drawn from a set of one element, are the outcome after this digit and
\* the characters after it.)
parseDigits(s, base, r) ==
    IF s = "" THEN r
    ELSE IF Head(s) = "_"
    THEN parseDigits(Tail(s), base, [r EXCEPT !.underscores = TRUE])
    ELSE IF digitVal(Head(s)) >= base THEN [r EXCEPT !.ok = FALSE]
    ELSE CHOOSE out \in
             {parseDigits(rest, base, next) :
                 rest \in {Tail(s)},
                 next \in {[r EXCEPT
                              !.m = mulAdd(@, base, digitVal(Head(s)))]}} :
             TRUE

RECURSIVE underscoreLoop(_, _, _)
\* strconv.underscoreOK, its loop from the characters left: saw is "0"
\* after a digit or the base prefix, "_" after an underscore, "!" after
\* anything else and "^" at the start. An underscore must follow a digit
\* and be followed by one.
underscoreLoop(s, hex, saw) ==
    IF s = "" THEN saw # "_"
    ELSE IF digitVal(Head(s)) < (IF hex THEN 16 ELSE 10)
    THEN underscoreLoop(Tail(s), hex, "0")
    ELSE IF Head(s) = "_"
    THEN saw = "0" /\ underscoreLoop(Tail(s), hex, "_")
    ELSE saw # "_" /\ underscoreLoop(Tail(s), hex, "!")

\* Whether s starts with a base prefix, given that len characters are
\* needed for one: 0b, 0o or 0x in either case.
hasPrefix(s, len) ==
    /\ Len(s) >= len
    /\ Head(s) = "0"
    /\ SubSeq(s, 2, 2) \in {"b", "B", "o", "O", "x", "X"}

\* strconv.underscoreOK on a string without its sign.
underscoreOK(s) ==
    IF hasPrefix(s, 2)
    THEN underscoreLoop(SubSeq(s, 3, Len(s)), SubSeq(s, 2, 2) \in {"x", "X"},
                        "0")
    ELSE underscoreLoop(s, FALSE, "^")

\* The end of strconv.ParseUint: s was not empty, every character was a
\* digit, and underscores, when there are any, are well placed.
syntaxOK(s, r) ==
    [ok |-> s # "" /\ r.ok /\ (r.underscores => underscoreOK(s)), m |-> r.m]

\* strconv.ParseUint(s, 0, 64) up to the range check: the base is read from
\* the prefix (0b, 0o, 0x followed by at least one character; otherwise a
\* leading 0 means octal; otherwise decimal) and the digits after it are
\* read. (r, drawn from a set of one element, is the outcome of the loop.)
ParseUint(s) ==
    CHOOSE out \in
        {syntaxOK(s, r) :
            r \in {parseDigits(
                       SubSeq(s,
                              IF s = "" \/ Head(s) # "0" THEN 1
                              ELSE IF hasPrefix(s, 3) THEN 3 ELSE 2,
                              Len(s)),
                       IF s = "" \/ Head(s) # "0" THEN 10
                       ELSE IF ~hasPrefix(s, 3) THEN 8
                       ELSE IF SubSeq(s, 2, 2) \in {"b", "B"} THEN 2
                       ELSE IF SubSeq(s, 2, 2) \in {"o", "O"} THEN 8
                       ELSE 16,
                       [ok |-> TRUE, m |-> <<0, 0, 0, 0>>,
                        underscores |-> FALSE])}} :
        TRUE

\* Whether the number of limbs a is below that of limbs b.
below(a, b) ==
    \E i \in 1..4 : a[i] < b[i] /\ \A j \in 1..(i - 1) : a[j] = b[j]

\* Whether int field a is less than int field b.
Less(a, b) ==
    IF a.neg # b.neg THEN a.neg
    ELSE IF a.neg THEN below(b.m, a.m)
    ELSE below(a.m, b.m)

\* The end of strconv.ParseInt: the int64 range, 2^63 being allowed only
\* below zero. ok is whether no error came back, n the number.
inRange(neg, r) ==
    IF r.ok /\ (\/ below(r.m, <<9, 223372, 36854, 775808>>)
                \/ neg /\ r.m = <<9, 223372, 36854, 775808>>)
    THEN [ok |-> TRUE, n |-> [neg |-> neg /\ r.m # <<0, 0, 0, 0>>, m |-> r.m]]
    ELSE [ok |-> FALSE, n |-> Int64(0)]

\* strconv.ParseInt(s, 0, 64) for s not empty: an optional sign, then the
\* number. (r, drawn from a set of one element, is what ParseUint returns.)
ParseInt(s) ==
    CHOOSE out \in
        {inRange(Head(s) = "-", r) :
            r \in {ParseUint(IF Head(s) \in {"+", "-"} THEN Tail(s) ELSE s)}} :
        TRUE

\* mapstructure's weak decode of a string into an int field: the empty
\* string counts as "0", and the string goes to strconv.ParseInt(str, 0,
\* 64).
Atoi(s) == ParseInt(IF s = "" THEN "0" ELSE s)

RECURSIVE FormatUint(_)
\* The decimal digits of a number that is not negative.
FormatUint(n) ==
    IF n < 10 THEN SubSeq("0123456789", n + 1, n + 1)
    ELSE FormatUint(n \div 10)
           \o SubSeq("0123456789", (n % 10) + 1, (n % 10) + 1)

\* mapstructure's weak decode of an int into a string field:
\* strconv.FormatInt(n, 10).
Itoa(n) == IF n < 0 THEN "-" \o FormatUint(0 - n) ELSE FormatUint(n)

\* The lower-case letter of an upper-case one; any other character is
\* itself.
toLower(c) ==
    LET at == {i \in 1..26 : SubSeq("ABCDEFGHIJKLMNOPQRSTUVWXYZ", i, i) = c}
    IN  IF at = {} THEN c
        ELSE CHOOSE l \in {SubSeq("abcdefghijklmnopqrstuvwxyz", i, i) :
                               i \in at} : TRUE

RECURSIVE EqualFold(_, _)
\* strings.EqualFold: equal but for the case of the letters. (A string of
\* this module holds ASCII characters only.)
EqualFold(s, t) ==
    /\ Len(s) = Len(t)
    /\ \/ s = ""
       \/ /\ toLower(Head(s)) = toLower(Head(t))
          /\ EqualFold(Tail(s), Tail(t))

\* mapstructure's search of a map for the key of a field tagged k, as the
\* values the field may be decoded from: the value under k when the map
\* holds k; otherwise the value under the first key, as the map's keys
\* come up, that equals k but for case, the order of a map's keys being
\* any; NoKey when no key matches, and the field is then left alone.
mapValues(tree, k) ==
    IF Has(tree, k) THEN {tree[k]}
    ELSE IF \A j \in DOMAIN tree : ~EqualFold(j, k) THEN {NoKey}
    ELSE {tree[j] : j \in {i \in DOMAIN tree : EqualFold(i, k)}}

\* Weakly typed decode of one value into an int field.
decodeInt(x) ==
    IF x.t \in {"absent", "nil"} THEN [ok |-> TRUE, v |-> Int64(0)]
    ELSE IF x.t = "int" THEN [ok |-> TRUE, v |-> Int64(x.n)]
    ELSE IF x.t = "str"
         THEN LET i == Atoi(x.s) IN [ok |-> i.ok, v |-> i.n]
    ELSE [ok |-> FALSE, v |-> Int64(0)]

\* Weakly typed decode of one value into a string field.
decodeString(x) ==
    IF x.t \in {"absent", "nil"} THEN [ok |-> TRUE, v |-> GoString("")]
    ELSE IF x.t = "str" THEN [ok |-> TRUE, v |-> GoString(x.s)]
    ELSE IF x.t = "int" THEN [ok |-> TRUE, v |-> GoString(Itoa(x.n))]
    ELSE [ok |-> FALSE, v |-> GoString("")]

\* Decode of one value into the nested Database struct: the outcomes the
\* order of the map's keys allows.
decodeDatabase(x) ==
    IF x.t \in {"absent", "nil"} THEN {[ok |-> TRUE, v |-> ZeroDatabase]}
    ELSE IF x.t = "map"
         THEN {[ok |-> h.ok /\ p.ok, v |-> [Host |-> h.v, Port |-> p.v]] :
                  h \in {decodeString(y) : y \in mapValues(x.m, "host")},
                  p \in {decodeInt(y) : y \in mapValues(x.m, "port")}}
    ELSE {[ok |-> FALSE, v |-> ZeroDatabase]}

\* Binder.decode: the tree decoded into a fresh record, as the outcomes the
\* order of the map's keys allows (one, unless several keys match a field
\* by case only): whether no error came back, the record, and the fields
\* the error names. Keys of the tree that match no field are ignored,
\* missing keys leave the zero value, and a field that fails to decode
\* does not stop the others.
decode(tree) ==
    {[ok |-> n.ok /\ p.ok /\ d.ok,
      rec |-> [Name |-> n.v, Port |-> p.v, Database |-> d.v],
      at |-> {k \in {"name"} : ~n.ok} \cup {k \in {"port"} : ~p.ok}
               \cup {k \in {"database"} : ~d.ok}] :
        n \in {decodeString(x) : x \in mapValues(tree, "name")},
        p \in {decodeInt(x) : x \in mapValues(tree, "port")},
        d \in UNION {decodeDatabase(x) : x \in mapValues(tree, "database")}}

\* Mutant of validate: the bounds are exclusive.
validateExclusive(rec) ==
    /\ rec.Name # GoString("")
    /\ rec.Port # Int64(0)
    /\ Less(Int64(MinPort), rec.Port)
    /\ Less(rec.Port, Int64(MaxPort))

\* Binder.validate: required (non-zero), min and max (inclusive).
validate(rec) ==
    /\ rec.Name # GoString("")
    /\ rec.Port # Int64(0)
    /\ ~Less(rec.Port, Int64(MinPort))
    /\ ~Less(Int64(MaxPort), rec.Port)

\* Mutant of Bind: the target is validated before decode's error is looked at.
BindValidateFirst(tree) ==
    {IF ~validate(d.rec) THEN [stage |-> "validate", rec |-> d.rec, at |-> d.at]
     ELSE IF ~d.ok THEN [stage |-> "decode", rec |-> d.rec, at |-> d.at]
     ELSE [stage |-> "ok", rec |-> d.rec, at |-> d.at] : d \in decode(tree)}

\* Binder.Bind into a fresh target, as the outcomes decode allows: the
\* stage that failed ("ok" when none), the target's contents afterwards
\* and the fields decode's error names.
Bind(tree) ==
    {IF ~d.ok THEN [stage |-> "decode", rec |-> d.rec, at |-> d.at]
     ELSE IF ~validate(d.rec)
     THEN [stage |-> "validate", rec |-> d.rec, at |-> d.at]
     ELSE [stage |-> "ok", rec |-> d.rec, at |-> d.at] : d \in decode(tree)}

\* The cause decode returns: the mapstructure error, as the fields it names.
decodeErr(d) == [lib |-> "mapstructure", at |-> d.at]

\* The cause validate returns: the validator's errors, one per failing
\* field, as the field and the first tag of the field that fails.
validateErr(rec) ==
    [lib |-> "validator",
     at |-> {f \in {<<"Name", "required">>} : rec.Name = GoString("")}
              \cup {f \in {<<"Port", "required">>} : rec.Port = Int64(0)}
              \cup {f \in {<<"Port", "min">>} :
                        rec.Port # Int64(0) /\ Less(rec.Port, Int64(MinPort))}
              \cup {f \in {<<"Port", "max">>} :
                        rec.Port # Int64(0) /\ ~Less(rec.Port, Int64(MinPort))
                            /\ Less(Int64(MaxPort), rec.Port)}]

\* A nil error.
NilError == [Stage |-> "", Err |-> [lib |-> "", at |-> {}]]

\* BindError.Unwrap.
Unwrap(e) == e.Err

\* The error Binder.Bind returns with outcome b: nil or a BindError with
\* Stage and Err.
BindError(b) ==
    IF b.stage = "decode"
    THEN [Stage |-> "decode", Err |-> decodeErr(b)]
    ELSE IF b.stage = "validate"
    THEN [Stage |-> "validate", Err |-> validateErr(b.rec)]
    ELSE NilError

\* Mutant of diffEvent: every field is listed as changed.
diffEventAllFields(old, new) ==
    [ChangedKeys |-> FieldOrder, OldConfig |-> old, NewConfig |-> new]

\* diffEvent on two non-nil pointers to records of the same struct type.
diffEvent(old, new) ==
    [ChangedKeys |-> SelectSeq(FieldOrder, LAMBDA f : old[f] # new[f]),
     OldConfig |-> old,
     NewConfig |-> new]

\* ------------------------------------------------------------- sources

RECURSIVE setNestedValueOverwrite(_, _, _)
\* Mutant of setNestedValue: a scalar in the way is replaced by a new tree.
setNestedValueOverwrite(cur, segs, value) ==
    IF segs = <<>> THEN cur
    ELSE LET seg == Head(segs)
         IN  IF seg = ""
             THEN IF Len(segs) = 1 THEN cur
                  ELSE setNestedValueOverwrite(cur, Tail(segs), value)
             ELSE IF Len(segs) = 1 THEN SetKey(cur, seg, S(value))
             ELSE IF seg \in DOMAIN cur /\ cur[seg].t = "map"
                  THEN SetKey(cur, seg,
                         M(setNestedValueOverwrite(cur[seg].m, Tail(segs), value)))
                  ELSE SetKey(cur, seg,
                         M(setNestedValueOverwrite(EmptyTree, Tail(segs), value)))

RECURSIVE setNestedValue(_, _, _)
\* setNestedValue(current, segments, value): the contents of current after
\* the call. An empty segment is skipped; the last segment is assigned the
\* value; a segment before it descends into the tree it holds, makes a tree
\* if the key is absent, and gives up if the key holds anything else.
setNestedValue(cur, segs, value) ==
    IF segs = <<>> THEN cur
    ELSE LET seg == Head(segs)
         IN  IF seg = ""
             THEN IF Len(segs) = 1 THEN cur
                  ELSE setNestedValue(cur, Tail(segs), value)
             ELSE IF Len(segs) = 1 THEN SetKey(cur, seg, S(value))
             ELSE IF seg \in DOMAIN cur
                  THEN IF cur[seg].t = "map"
                       THEN SetKey(cur, seg,
                              M(setNestedValue(cur[seg].m, Tail(segs), value)))
                       ELSE cur
                  ELSE SetKey(cur, seg,
                         M(setNestedValue(EmptyTree, Tail(segs), value)))

\* The GENEVER_ variables an environment may hold, prefix stripped,
\* lowercased and split on "_".
MaxEnv == 3
EnvVars ==
    {[path |-> <<"db">>, val |-> "mydb"],
     [path |-> <<"db", "host">>, val |-> "localhost"],
     [path |-> <<"db", "port">>, val |-> "5432"],
     [path |-> <<"db", "host", "name">>, val |-> "h"],
     [path |-> <<"app">>, val |-> "x"],
     [path |-> <<"db", "">>, val |-> "e"],
     [path |-> <<"db", "", "host">>, val |-> "other"],
     [path |-> <<"", "">>, val |-> "z"]}

\* The Manager of cmd/orders is built over three sources: file, env, cli.
NSrc == 3
Sources == 1..NSrc

\* What the file source holds.
TFile ==
    [name |-> S("app"), port |-> I(8080),
     database |-> M([host |-> S("localhost"), port |-> I(5432)])]
TFileNoDb == [name |-> S("app"), port |-> I(8080)]
\* Environment and CLI sources produce string leaves.
TEnv == [port |-> S("9090"), database |-> M([host |-> S("prod")])]
TEnvHigh == [port |-> S("99999")]
TEnvNaN == [port |-> S("abc")]
TCli == [port |-> S("9999")]
TCliScalar == [database |-> S("x")]

\* Data with keys that match no field, and with part of the database only.
TFileExtra ==
    [name |-> S("app"), port |-> I(8080),
     cache |-> M([enabled |-> S("true")]), debug |-> S("1")]
TEnvDbPort == [database |-> M([port |-> S("5432"), pool |-> S("9090")])]

\* A file whose two keys for the port differ from the field's tag by case,
\* and a flag named as the field is.
TFileCase == [name |-> S("app"), Port |-> I(8080), PORT |-> I(9090)]
TCliCase == [Port |-> S("7070")]

\* The data the environment changes a source to in the runs over keys that
\* differ from the fields' tags by case.
CaseChoices(i) ==
    CASE i = 1 -> {TFile, TFileCase}
      [] i = 2 -> {EmptyTree}
      [] OTHER -> {EmptyTree, TCliCase}

\* The data the environment changes a source to in the runs about what a
\* Reload binds.
RebindChoices(i) ==
    CASE i = 1 -> {TFile, TFileNoDb, TFileExtra, TFileCase}
      [] i = 2 -> {EmptyTree, TEnv, TEnvDbPort}
      [] OTHER -> {EmptyTree}

\* The data a Manager may be constructed over.
Choices(i) ==
    CASE i = 1 -> {TFile, TFileNoDb}
      [] i = 2 -> {EmptyTree, TEnv, TEnvHigh, TEnvNaN}
      [] OTHER -> {EmptyTree, TCli, TCliScalar, TCliCase}

\* The data the environment changes a source to while the Manager is live.
LiveChoices(i) ==
    CASE i = 1 -> {TFile}
      [] i = 2 -> {EmptyTree, TEnv, TEnvHigh, TEnvNaN}
      [] OTHER -> {EmptyTree}

\* The same, in the runs with two concurrent callers.
ConcChoices(i) ==
    CASE i = 1 -> {TFile}
      [] i = 2 -> {EmptyTree, TEnv}
      [] OTHER -> {EmptyTree}

InitialData(i) == IF i = 1 THEN TFile ELSE EmptyTree

\* Trees for the runs that exercise mergeMaps alone: scalars, nil, sequences
\* and nested trees under the same keys, two levels deep.
MergeTrees ==
    {EmptyTree,
     [a |-> I(1)],
     [a |-> S("x"), b |-> I(2)],
     [a |-> Nil],
     [a |-> Q("1,2")],
     [a |-> Q("3")],
     [a |-> M([x |-> I(1), y |-> I(2)])],
     [a |-> M([x |-> Nil, z |-> S("z")]), b |-> Nil],
     [a |-> M(EmptyTree), b |-> Q("1,2")],
     [a |-> M([x |-> M([p |-> I(1), q |-> I(2)])])],
     [a |-> M([x |-> M([p |-> Nil, r |-> I(3)]), y |-> Q("3")])],
     [a |-> M([x |-> I(7)]), b |-> M([u |-> S("u")])]}

\* The sources whose Load the environment makes fail.
ErrSources == {1}

\* ------------------------------------------------------ application modules

\* A Module, as far as topoSort and App.Run look at it: what Name() and
\* DependsOn() return. Names are compared as strings: "a" < "b" < "c".
NameOrder == <<"a", "b", "c">>
Names == {"a", "b", "c"}
Unregistered == "z"
MaxMods == 3

\* What DependsOn() may return: nothing, one name (the module's own or one
\* that no module has included), or two different names.
DepLists ==
    {<<>>} \cup {<<x>> : x \in Names \cup {Unregistered}}
           \cup {p \in Names \X Names : p[1] # p[2]}
Modules == [name : Names, deps : DepLists]
ModLists == UNION {[1..n -> Modules] : n \in 0..MaxMods}

\* errors.New(...): which of topoSort's three errors, the module it names
\* and, for a missing dependency, the name that is not registered.
NoErr == [kind |-> "nil", at |-> "", dep |-> ""]
ErrorsNew(kind, at, dep) == [kind |-> kind, at |-> at, dep |-> dep]

\* Mutant of firstDup: no name is looked up before it is registered.
firstDupNone(list) == 0

\* topoSort's first loop: the index of the first module whose name an
\* earlier module of the list has, 0 if there is none.
firstDup(list) ==
    LET dups == {i \in 1..Len(list) :
                   \E j \in 1..(i - 1) : list[j].name = list[i].name}
    IN  IF dups = {} THEN 0
        ELSE CHOOSE i \in dups : \A j \in dups : i <= j

\* nameToMod once the first loop is through the list: a later module of a
\* name replaces an earlier one.
NameToMod(list) ==
    [n \in {list[i].name : i \in 1..Len(list)} |->
        list[CHOOSE i \in 1..Len(list) :
                 /\ list[i].name = n
                 /\ \A j \in 1..Len(list) : list[j].name = n => j <= i]]

RECURSIVE sortFrom(_, _)
\* sort.Strings on a list of names: those equal to the r-th name of
\* NameOrder, then those after it.
sortFrom(names, r) ==
    IF r > Len(NameOrder) THEN <<>>
    ELSE SelectSeq(names, LAMBDA x : x = NameOrder[r]) \o sortFrom(names, r + 1)

\* Mutant of sortedNames: the names are visited in the order of the list.
listedNames(list) == [i \in 1..Len(list) |-> list[i].name]

\* The names of the list, sorted.
sortedNames(list) == sortFrom([i \in 1..Len(list) |-> list[i].name], 1)

RECURSIVE visit(_, _, _)
RECURSIVE visitDeps(_, _, _, _)
\* visit(n): st holds visited, temp, out and the error returned, if any.
visit(nameToMod, n, st) ==
    IF n \in st.temp
    THEN [st EXCEPT !.err = ErrorsNew("cycle", n, "")]
    ELSE IF n \in st.visited THEN st
    ELSE LET s1 == visitDeps(nameToMod, n, nameToMod[n].deps,
                             [st EXCEPT !.temp = @ \cup {n}])
         IN  IF s1.err # NoErr THEN s1
             ELSE [s1 EXCEPT !.visited = @ \cup {n},
                             !.temp = @ \ {n},
                             !.out = Append(@, nameToMod[n])]
\* The loop of visit(n) over m.DependsOn(), from the dependencies left.
visitDeps(nameToMod, n, deps, st) ==
    IF deps = <<>> THEN st
    ELSE LET d == Head(deps)
         IN  IF d \notin DOMAIN nameToMod
             THEN [st EXCEPT !.err = ErrorsNew("missing", n, d)]
             ELSE LET s1 == visit(nameToMod, d, st)
                  IN  IF s1.err # NoErr THEN s1
                      ELSE visitDeps(nameToMod, n, Tail(deps), s1)

RECURSIVE visitAll(_, _, _)
\* topoSort's last loop: visit(n) for each of the sorted names.
visitAll(nameToMod, names, st) ==
    IF names = <<>> THEN st
    ELSE LET s1 == visit(nameToMod, Head(names), st)
         IN  IF s1.err # NoErr THEN s1
             ELSE visitAll(nameToMod, Tail(names), s1)

\* topoSort(mods): the error, and the ordered modules (nil on an error).
topoSort(list) ==
    IF firstDup(list) # 0
    THEN [err |-> ErrorsNew("duplicate", list[firstDup(list)].name, ""),
          out |-> <<>>]
    ELSE LET st == visitAll(NameToMod(list), sortedNames(list),
                            [visited |-> {}, temp |-> {}, out |-> <<>>,
                             err |-> NoErr])
         IN  [err |-> st.err, out |-> IF st.err # NoErr THEN <<>> ELSE st.out]

\* ----------------------------------------------------------- processes

\* Caller goroutines; the first one constructs the Manager.
Procs == {"c1", "c2"}
Ctor == "c1"
None == "none"

\* Subscriber channel k is unbuffered (make(chan Event)) when k is even and
\* buffered (make(chan Event, Cap)) when k is odd.
ChanCap(k) == IF k % 2 = 1 THEN Cap ELSE 0

ErrKinds == {"cancelled", "load", "decode", "validate"}

VARIABLES
    mgr,        \* "uninit", "constructing", "live", "failed": NewManager's progress
    autoWatch,  \* opts.AutoReload
    mconfig,    \* m.config: which storage location the Manager points at
    config,     \* the caller's struct, the live record
    srcData,    \* what each source's Load returns
    srcErr,     \* whether each source's Load fails
    mu,         \* m.mu: [w |-> writer or None, r |-> set of readers]
    subs,       \* m.subs: sequence of channel numbers
    chans,      \* the subscriber channels' contents, by channel number
    waiting,    \* whether a consumer is parked in a receive on the channel
    wpc,        \* the watch goroutine of each source
    pc,         \* each caller's position
    ctxDone,    \* whether the context of the caller's Reload is cancelled
    si,         \* index of the source the Reload loop is at
    merged,     \* Reload's accumulator
    newCfg,     \* Reload's freshly bound record
    oldCfg,     \* Reload's snapshot of the live record
    towrite,    \* words of the live record the swap has yet to overwrite
    snap,       \* notify's copy of m.subs
    idx,        \* notify's position in that copy
    arg,        \* the channel a pending Subscribe was called with
    res,        \* what the Reload that has just returned gave its caller
    ctorErr,    \* the error NewManager returned
    loaded,     \* history: the trees this Reload has loaded, in order
    lastTree,   \* history: the merged tree of the latest completed swap
    preTree,    \* history: lastTree when this Reload took the lock
    nfail,      \* history: whether a Reload has failed since construction
    osEnv,      \* os.Environ(): the GENEVER_ variables, as path and value
    envAt,      \* loadEnvVars: how many of them the loop has been through
    envTree,    \* loadEnvVars: result
    fs,         \* the FileSource's Profile and the documents in its BasePath
    fileOut,    \* what FileSource.Load returned
    loadCtx,    \* whether the ctx given to FileSource.Load is cancelled
    bindIn,     \* the source map given to Binder.Bind
    bindOut,    \* the error Bind returned and the target afterwards
    watchKind,  \* what each source's Watch does
    wsig,       \* whether a change notification is being sent on each ch
    wfail,      \* history: whether a Reload of a watch goroutine has failed
    diffIn,     \* the two values given to diffEvent
    diffOut,    \* what diffEvent returned, or that it panicked
    rcvd,       \* history: the event each consumer received last
    dropped,    \* history: whether notify skipped a full channel
    fresh,      \* history: no source changed since the last Reload call
    took,       \* history: the events of a notify each channel took
    mods,       \* a.Modules
    order,      \* App.Run: the modules as topoSort ordered them
    apc,        \* App.Run's position
    ai,         \* App.Run: index of the module its loop is at
    calls,      \* history: the calls Run made on modules, and how they went
    firstErr,   \* App.Run: the first error a Stop returned
    runErr      \* what App.Run returned

bindVars == <<bindIn, bindOut>>
environVars == <<osEnv, envAt, envTree>>
fileVars == <<fs, fileOut, loadCtx>>
watchVars == <<watchKind, wsig, wfail>>
diffVars == <<diffIn, diffOut>>
appVars == <<mods, order, apc, ai, calls, firstErr, runErr>>
pureVars == <<environVars, fileVars, bindVars, diffVars, appVars>>
srcVars == <<pureVars, watchVars>>
obsVars == <<rcvd, dropped, fresh, took>>
envVars == <<srcData, srcErr, srcVars, obsVars>>
mgrVars == <<mgr, autoWatch, mconfig, ctorErr, wpc>>
chanVars == <<subs, chans, waiting>>
relVars == <<si, merged, newCfg, oldCfg, towrite, loaded, preTree>>
notVars == <<snap, idx>>
callVars == <<pc, ctxDone, arg, res>>
histVars == <<lastTree, nfail>>
vars == <<envVars, mgrVars, chanVars, relVars, notVars, callVars, histVars,
          config, mu>>

NoTree == [none |-> Nil]

\* No App: no modules, and Run has not been called.
NoApp ==
    /\ mods = <<>>
    /\ order = <<>>
    /\ apc = "none"
    /\ ai = 0
    /\ calls = <<>>
    /\ firstErr = NoErr
    /\ runErr = NoErr

\* No consumer has received an event yet.
NoEvent == [ChangedKeys |-> <<>>, OldConfig |-> ZeroCfg, NewConfig |-> ZeroCfg]

\* The state before NewManager is called, but for the sources and options.
InitRest ==
    /\ mgr = "uninit"
    /\ mconfig = None
    /\ config = ZeroCfg
    /\ mu = [w |-> None, r |-> {}]
    /\ subs = <<>>
    /\ chans = <<>>
    /\ waiting = <<>>
    /\ wpc = [i \in Sources |-> "none"]
    /\ pc = [p \in Procs |-> "idle"]
    /\ ctxDone = [p \in Procs |-> FALSE]
    /\ si = [p \in Procs |-> 0]
    /\ merged = [p \in Procs |-> EmptyTree]
    /\ newCfg = [p \in Procs |-> ZeroCfg]
    /\ oldCfg = [p \in Procs |-> ZeroCfg]
    /\ towrite = [p \in Procs |-> {}]
    /\ snap = [p \in Procs |-> <<>>]
    /\ idx = [p \in Procs |-> 0]
    /\ arg = [p \in Procs |-> 0]
    /\ res = [p \in Procs |-> None]
    /\ ctorErr = None
    /\ loaded = [p \in Procs |-> <<>>]
    /\ lastTree = NoTree
    /\ preTree = [p \in Procs |-> NoTree]
    /\ nfail = FALSE
    /\ rcvd = [k \in 1..MaxSubs |-> NoEvent]
    /\ dropped = [k \in 1..MaxSubs |-> FALSE]
    /\ fresh = FALSE
    /\ took = [p \in Procs |-> [k \in 1..MaxSubs |-> 0]]

\* No GENEVER_ variable in the environment, a base document without a
\* profile on disk, and no source in its Load.
NoDoc == [st |-> "missing", tree |-> EmptyTree]
\* Bind has not returned yet.
NotBound ==
    [err |-> [Stage |-> "pending", Err |-> [lib |-> "", at |-> {}]],
     target |-> ZeroCfg]
\* Load has not returned yet.
NotLoaded == [err |-> "pending", tree |-> NoTree]
\* No EnvSource, no FileSource, no Binder of its own.
NoEnviron ==
    /\ osEnv = <<>>
    /\ envAt = 0
    /\ envTree = EmptyTree
NoFile ==
    /\ fs = [profile |-> FALSE, base |-> [st |-> "ok", tree |-> EmptyTree],
             baseYml |-> NoDoc, prof |-> NoDoc, profYml |-> NoDoc]
    /\ fileOut = NotLoaded
    /\ loadCtx = FALSE
NoBind ==
    /\ bindIn = EmptyTree
    /\ bindOut = NotBound
\* Values of type any, as reflect sees them. A nil interface; a value of a
\* kind that is neither struct nor pointer; a struct value of a named type
\* with its fields in declaration order, each with its name, whether it is
\* exported, and its value (a type and a content); a pointer; and what Elem
\* gives for a nil pointer.
NilAny == [kind |-> "nil"]
Invalid == [kind |-> "invalid"]
Other(kind, v) == [kind |-> kind, v |-> v]
Ptr(x) == [kind |-> "ptr", to |-> x]
Field(name, ty, v) ==
    [name |-> name, exp |-> TRUE, val |-> [ty |-> ty, v |-> v]]
Unexported(name, ty, v) ==
    [name |-> name, exp |-> FALSE, val |-> [ty |-> ty, v |-> v]]
Struct(ty, fields) == [kind |-> "struct", ty |-> ty, f |-> fields]

\* reflect.DeepEqual on two field values.
DeepEqual(a, b) == a.ty = b.ty /\ a.v = b.v

RECURSIVE diffLoop(_, _, _, _)
\* diffEvent's loop over the fields of old, from field i on: newVal.Field(i)
\* panics when new has no field i, Interface() panics on an unexported
\* field; a field whose values are not deeply equal adds its name.
diffLoop(of, nf, i, keys) ==
    IF i > Len(of) THEN [panic |-> FALSE, keys |-> keys]
    ELSE IF i > Len(nf) THEN [panic |-> TRUE, keys |-> <<>>]
    ELSE IF ~of[i].exp \/ ~nf[i].exp THEN [panic |-> TRUE, keys |-> <<>>]
    ELSE diffLoop(of, nf, i + 1,
                  IF DeepEqual(of[i].val, nf[i].val)
                  THEN keys ELSE Append(keys, of[i].name))

\* Mutant of diffEventAny: with a nil input the zero Event is returned.
diffEventNilZero(old, new) ==
    LET ov == IF old.kind = "ptr" THEN old.to ELSE old
        nv == IF new.kind = "ptr" THEN new.to ELSE new
    IN  IF old.kind = "nil" \/ new.kind = "nil"
        THEN [panic |-> FALSE, ChangedKeys |-> <<>>,
              OldConfig |-> NilAny, NewConfig |-> NilAny]
        ELSE IF ov.kind = "struct" /\ nv.kind = "struct"
        THEN LET r == diffLoop(ov.f, nv.f, 1, <<>>)
             IN  [panic |-> r.panic, ChangedKeys |-> r.keys,
                  OldConfig |-> old, NewConfig |-> new]
        ELSE [panic |-> FALSE, ChangedKeys |-> <<>>,
              OldConfig |-> old, NewConfig |-> new]

\* diffEvent on any two values: the Event, or that the call panicked.
diffEventAny(old, new) ==
    LET ov == IF old.kind = "ptr" THEN old.to ELSE old
        nv == IF new.kind = "ptr" THEN new.to ELSE new
    IN  IF old.kind = "nil" \/ new.kind = "nil"
        THEN [panic |-> FALSE, ChangedKeys |-> <<>>,
              OldConfig |-> old, NewConfig |-> new]
        ELSE IF ov.kind = "struct" /\ nv.kind = "struct"
        THEN LET r == diffLoop(ov.f, nv.f, 1, <<>>)
             IN  [panic |-> r.panic, ChangedKeys |-> r.keys,
                  OldConfig |-> old, NewConfig |-> new]
        ELSE [panic |-> FALSE, ChangedKeys |-> <<>>,
              OldConfig |-> old, NewConfig |-> new]

\* The values diffEvent is given.
SimpleConfig(h, p) ==
    Struct("SimpleConfig", <<Field("Host", "string", h),
                             Field("Port", "int", p)>>)
AppConfig(n, h, p) ==
    Struct("AppConfig", <<Field("Name", "string", n),
                          Field("Database", "Database", <<h, p>>)>>)
DiffValues ==
    {NilAny,
     Other("string", "old"), Other("string", "new"),
     Other("map", "key: value1"),
     SimpleConfig("localhost", "8080"), SimpleConfig("example.com", "8080"),
     SimpleConfig("example.com", "9090"),
     Ptr(SimpleConfig("localhost", "8080")),
     Ptr(SimpleConfig("example.com", "9090")),
     Ptr(Ptr(SimpleConfig("localhost", "8080"))),
     Ptr(Invalid),
     AppConfig("orders", "localhost", "5432"),
     AppConfig("orders", "remote", "5432"),
     Struct("HostOnly", <<Field("Host", "string", "localhost")>>),
     Struct("Endpoint", <<Field("Addr", "string", "localhost"),
                          Field("Port", "int", "8080")>>),
     Struct("WithSecret", <<Field("Host", "string", "localhost"),
                            Unexported("secret", "string", "s3")>>)}

\* diffEvent has not returned yet.
NotDiffed == [panic |-> FALSE, ChangedKeys |-> <<"pending">>]
NoDiff ==
    /\ diffIn = <<NilAny, NilAny>>
    /\ diffOut = NotDiffed

\* The source whose Watch is not the repository's no-op, and the goroutine
\* startWatchers spawns for it.
Watched == 2
Watcher == "c2"
WatchKinds == {"nil", "err", "run", "async"}

\* The sources of the repository: Watch returns nil at once.
NoWatch ==
    /\ watchKind = [i \in Sources |-> "nil"]
    /\ wsig = [i \in Sources |-> FALSE]
    /\ wfail = FALSE
InitSrc ==
    /\ NoEnviron
    /\ NoFile
    /\ NoBind
    /\ NoDiff
    /\ NoWatch
    /\ NoApp

\* Mutant of yamlUnmarshal: the document is deep-merged into the map.
yamlUnmarshalDeep(out, doc) == mergeMaps(out, doc)

\* yaml.Unmarshal(b, &out) of a mapping document into a non-nil map: each
\* top-level key of the document that decodes is set to a freshly decoded
\* value; the other keys of the map stay.
yamlUnmarshal(out, doc) ==
    [k \in DOMAIN out \cup DOMAIN doc |->
        IF k \in DOMAIN doc THEN doc[k] ELSE out[k]]

\* Mutant of findYAMLFile: only the .yaml extension is tried.
findYAMLFileYamlOnly(yaml, yml) == yaml

\* findYAMLFile: the first of name.yaml, name.yml that exists (a missing
\* document when neither does).
findYAMLFile(yaml, yml) == IF yaml.st # "missing" THEN yaml ELSE yml

\* FileSource.Load: the error and the tree it returns (NoTree for nil). A
\* document is missing, malformed ("bad") or a mapping. The tree of a
\* malformed document holds the top-level keys yaml.Unmarshal has set when
\* it returns its error: none when the document does not parse, and the
\* keys whose values decode when the error is found while decoding (a key
\* defined twice in a nested mapping, say). The overlay is read into the
\* map that holds the base and the error of reading it is discarded.
FileSourceLoad(f) ==
    LET baseFile == findYAMLFile(f.base, f.baseYml)
        profileFile == findYAMLFile(f.prof, f.profYml)
    IN  IF baseFile.st = "missing" THEN [err |-> "notexist", tree |-> NoTree]
        ELSE IF baseFile.st = "bad" THEN [err |-> "parse", tree |-> NoTree]
        ELSE IF f.profile /\ profileFile.st # "missing"
             THEN [err |-> None,
                   tree |-> yamlUnmarshal(baseFile.tree, profileFile.tree)]
        ELSE [err |-> None, tree |-> baseFile.tree]

\* The documents a BasePath may hold.
DocTrees ==
    {EmptyTree,
     [app |-> M([name |-> S("x"), port |-> I(8080)])],
     [app |-> M([port |-> I(9090)])],
     [app |-> M([name |-> S("x"), port |-> I(8080)]),
      database |-> M([host |-> S("localhost")])],
     [cache |-> M([enabled |-> S("true")]), app |-> S("flat")]}
Docs ==
    {NoDoc, [st |-> "bad", tree |-> EmptyTree],
     [st |-> "bad", tree |-> [cache |-> M([enabled |-> S("true")])]]}
        \cup {[st |-> "ok", tree |-> t] : t \in DocTrees}
\* The documents it may hold under the .yml extension.
YmlDocs ==
    {NoDoc, [st |-> "bad", tree |-> EmptyTree],
     [st |-> "ok", tree |-> [app |-> M([name |-> S("yml")])]]}

\* A Manager about to be built over working sources, AutoReload off.
Init ==
    /\ InitSrc
    /\ autoWatch = FALSE
    /\ srcData = [i \in Sources |-> InitialData(i)]
    /\ srcErr = [i \in Sources |-> FALSE]
    /\ InitRest

\* A Manager about to be built over sources that return any of MergeTrees.
InitMerge ==
    /\ InitSrc
    /\ autoWatch = FALSE
    /\ srcData \in [Sources -> MergeTrees]
    /\ srcErr = [i \in Sources |-> FALSE]
    /\ InitRest

\* An EnvSource about to load from any environment of up to MaxEnv
\* variables; no Manager.
InitEnv ==
    /\ osEnv \in UNION {[1..n -> EnvVars] : n \in 0..MaxEnv}
    /\ envAt = 0
    /\ envTree = EmptyTree
    /\ NoFile
    /\ NoBind
    /\ NoDiff
    /\ NoWatch
    /\ NoApp
    /\ autoWatch = FALSE
    /\ srcData = [i \in Sources |-> InitialData(i)]
    /\ srcErr = [i \in Sources |-> FALSE]
    /\ InitRest

\* The values a key of the source map may hold.
NameValues ==
    {NoKey, Nil, S("orders"), S(""), I(8080), I(9090), I(0 - 1), M(EmptyTree)}
PortValues ==
    {NoKey, I(8080), I(0), I(0 - 1), I(99999), S("9090"), S("abc"),
     S("8080"), S("0"), S("-1"), S("0x10"), S("65_535"), S("65536"),
     S("2147483648"), S("-2147483648"), S("9223372036854775807"),
     S("9223372036854775808"),
     M(EmptyTree), I(MinPort), I(MaxPort), I(MaxPort + 1)}
DatabaseValues ==
    {NoKey, M([host |-> S("localhost"), port |-> I(5432)]),
     M([port |-> S("abc")]), S("flat")}

\* The source map with the keys that are given a value.
SourceMap(n, p, d) ==
    LET all == [name |-> n, port |-> p, database |-> d]
    IN  [k \in {j \in DOMAIN all : all[j] # NoKey} |-> all[k]]

\* Source maps whose keys differ from the fields' tags by case: one key
\* to a field, a key that is the tag next to one that is not, and two keys
\* of which neither is the tag.
CaseMaps ==
    {[name |-> S("app"), Port |-> I(8080)],
     [NAME |-> S("app"), port |-> I(8080)],
     [Name |-> S("app"), PORT |-> S("70000")],
     [name |-> S("app"), port |-> I(8080),
      Database |-> M([Host |-> S("db"), PORT |-> S("5432")])],
     [name |-> S("app"), port |-> I(8080), database |-> M([Host |-> S("db")])],
     [name |-> S("app"), port |-> I(8080), Database |-> M([host |-> S("db")])],
     [name |-> S("app"), port |-> I(8080), Port |-> S("abc")],
     [name |-> S("app"), Port |-> I(8080), PORT |-> I(0)],
     [name |-> S("app"), Port |-> I(8080), PORT |-> S("abc")],
     [Name |-> S("a"), NAME |-> S("b"), port |-> I(8080)],
     [name |-> S("app"), port |-> I(8080),
      database |-> M([Port |-> I(1), PORT |-> I(2)])],
     [name |-> S("app"), port |-> I(8080),
      Database |-> M([host |-> S("x")]), DATABASE |-> S("flat")]}

\* A Binder about to bind any source map into a zero target; no Manager.
InitBind ==
    /\ bindIn \in {SourceMap(n, p, d) :
                      n \in NameValues, p \in PortValues, d \in DatabaseValues}
                    \cup CaseMaps
    /\ bindOut = NotBound
    /\ NoEnviron
    /\ NoFile
    /\ NoDiff
    /\ NoWatch
    /\ NoApp
    /\ autoWatch = FALSE
    /\ srcData = [i \in Sources |-> InitialData(i)]
    /\ srcErr = [i \in Sources |-> FALSE]
    /\ InitRest

\* diffEvent about to be called on any two values; no Manager.
InitDiff ==
    /\ diffIn \in DiffValues \X DiffValues
    /\ diffOut = NotDiffed
    /\ NoEnviron
    /\ NoFile
    /\ NoBind
    /\ NoWatch
    /\ NoApp
    /\ autoWatch = FALSE
    /\ srcData = [i \in Sources |-> InitialData(i)]
    /\ srcErr = [i \in Sources |-> FALSE]
    /\ InitRest

\* A FileSource about to load from any BasePath, with or without a Profile;
\* no Manager.
InitFile ==
    /\ fs \in [profile : BOOLEAN, base : Docs, baseYml : YmlDocs,
                prof : Docs, profYml : YmlDocs]
    /\ fileOut = NotLoaded
    /\ loadCtx \in BOOLEAN
    /\ NoBind
    /\ NoEnviron
    /\ NoDiff
    /\ NoWatch
    /\ NoApp
    /\ autoWatch = FALSE
    /\ srcData = [i \in Sources |-> InitialData(i)]
    /\ srcErr = [i \in Sources |-> FALSE]
    /\ InitRest

\* A Manager about to be built over working sources, with AutoReload on
\* and one source with any kind of Watch, or with AutoReload off (Watch is
\* then never called) and the sources of the repository.
InitWatch ==
    /\ NoEnviron
    /\ NoFile
    /\ NoBind
    /\ NoDiff
    /\ NoApp
    /\ watchKind \in {[i \in Sources |-> IF i = Watched THEN k ELSE "nil"] :
                        k \in WatchKinds}
    /\ wsig = [i \in Sources |-> FALSE]
    /\ wfail = FALSE
    /\ autoWatch \in BOOLEAN
    /\ ~autoWatch => watchKind[Watched] = "nil"
    /\ srcData = [i \in Sources |-> InitialData(i)]
    /\ srcErr = [i \in Sources |-> FALSE]
    /\ InitRest

\* An App over any list of up to MaxMods modules, about to Run; no Manager.
InitApp ==
    /\ mods \in ModLists
    /\ order = <<>>
    /\ apc = "run"
    /\ ai = 0
    /\ calls = <<>>
    /\ firstErr = NoErr
    /\ runErr = NoErr
    /\ NoEnviron
    /\ NoFile
    /\ NoBind
    /\ NoDiff
    /\ NoWatch
    /\ autoWatch = FALSE
    /\ srcData = [i \in Sources |-> InitialData(i)]
    /\ srcErr = [i \in Sources |-> FALSE]
    /\ InitRest

\* A Manager about to be built over any sources, with any options.
InitAny ==
    /\ InitSrc
    /\ autoWatch \in BOOLEAN
    /\ srcData \in {d \in [Sources -> UNION {Choices(i) : i \in Sources}] :
                      \A i \in Sources : d[i] \in Choices(i)}
    /\ srcErr \in {e \in [Sources -> BOOLEAN] :
                     \A i \in Sources : e[i] => i \in ErrSources}
    /\ InitRest

\* ------------------------------------------------------------ environment

\* The environment changes what a source holds (a file edit, a new variable).
ChangeSource(i, t) ==
    /\ t # srcData[i]
    /\ srcData' = [srcData EXCEPT ![i] = t]
    /\ UNCHANGED <<srcErr, srcVars, mgrVars, chanVars, relVars, notVars,
                   callVars, histVars, config, mu>>

\* The same, in the runs that do not record the history of observations.
SetSource(i, t) == ChangeSource(i, t) /\ UNCHANGED obsVars

\* The same, recording that a source changed after the last Reload call.
SetSourceSeen(i, t) ==
    /\ ChangeSource(i, t)
    /\ fresh' = FALSE
    /\ UNCHANGED <<rcvd, dropped, took>>

\* The environment makes a source's Load fail, or work again.
SetErr(i) ==
    /\ srcErr' = [srcErr EXCEPT ![i] = ~srcErr[i]]
    /\ UNCHANGED <<srcData, srcVars, obsVars, mgrVars, chanVars, relVars, notVars,
                   callVars, histVars, config, mu>>

\* loadEnvVars: one turn of the loop over os.Environ().
LoadEnvVar ==
    /\ envAt < Len(osEnv)
    /\ envTree' = setNestedValue(envTree, osEnv[envAt + 1].path,
                                 osEnv[envAt + 1].val)
    /\ envAt' = envAt + 1
    /\ UNCHANGED <<osEnv, fileVars, bindVars, diffVars, watchVars, obsVars, appVars, srcData, srcErr, mgrVars,
                   chanVars, relVars, notVars, callVars, histVars, config, mu>>

\* Binder.Bind is called on a zero target and returns.
BindCall ==
    /\ bindOut = NotBound
    /\ \E b \in Bind(bindIn) :
          bindOut' = [err |-> BindError(b), target |-> b.rec]
    /\ UNCHANGED <<bindIn, environVars, fileVars, diffVars, watchVars, obsVars, appVars, srcData, srcErr, mgrVars,
                   chanVars, relVars, notVars, callVars, histVars, config, mu>>

\* diffEvent is called and returns or panics.
DiffCall ==
    /\ diffOut = NotDiffed
    /\ diffOut' = diffEventAny(diffIn[1], diffIn[2])
    /\ UNCHANGED <<diffIn, environVars, fileVars, bindVars, watchVars, obsVars, appVars,
                   srcData, srcErr, mgrVars, chanVars, relVars, notVars,
                   callVars, histVars, config, mu>>

\* FileSource.Load(ctx) is called and returns; ctx is not read.
FileLoad ==
    /\ fileOut = NotLoaded
    /\ fileOut' = FileSourceLoad(fs)
    /\ UNCHANGED <<fs, loadCtx, environVars, bindVars, diffVars, watchVars, obsVars, appVars, srcData, srcErr,
                   mgrVars, chanVars, relVars, notVars, callVars, histVars,
                   config, mu>>

\* --------------------------------------------------------------- Manager

\* Reload returns r: the call's frame stays until the caller has the result.
Return(p, r) ==
    /\ pc' = [pc EXCEPT ![p] = "ret"]
    /\ res' = [res EXCEPT ![p] = r]
    /\ nfail' = (nfail \/ (mgr = "live" /\ r \in ErrKinds))

\* The locals of a Reload call once its caller has the result.
ResetLocals(p) ==
    /\ res' = [res EXCEPT ![p] = None]
    /\ si' = [si EXCEPT ![p] = 0]
    /\ merged' = [merged EXCEPT ![p] = EmptyTree]
    /\ loaded' = [loaded EXCEPT ![p] = <<>>]
    /\ newCfg' = [newCfg EXCEPT ![p] = ZeroCfg]
    /\ oldCfg' = [oldCfg EXCEPT ![p] = ZeroCfg]
    /\ towrite' = [towrite EXCEPT ![p] = {}]
    /\ preTree' = [preTree EXCEPT ![p] = NoTree]
    /\ snap' = [snap EXCEPT ![p] = <<>>]
    /\ idx' = [idx EXCEPT ![p] = 0]
    /\ ctxDone' = [ctxDone EXCEPT ![p] = FALSE]

\* startWatchers: one goroutine per source is started with a channel of
\* its own (go func() { ... }()); none of them has run yet.
startWatchers == [i \in Sources |-> "spawned"]

\* NewManager up to its call of Reload(context.Background()).
NewManager(p) ==
    /\ p = Ctor
    /\ mgr = "uninit"
    /\ pc[p] = "idle"
    /\ mgr' = "constructing"
    /\ mconfig' = "cfg"
    /\ pc' = [pc EXCEPT ![p] = "ckctx"]
    /\ si' = [si EXCEPT ![p] = 1]
    /\ merged' = [merged EXCEPT ![p] = EmptyTree]
    /\ loaded' = [loaded EXCEPT ![p] = <<>>]
    /\ UNCHANGED <<autoWatch, ctorErr, wpc, envVars, chanVars, newCfg, oldCfg,
                   towrite, preTree, notVars, ctxDone, arg, res, histVars,
                   config, mu>>

\* Mutant of NewManagerReturn: the watchers are started before the error of
\* the initial Reload is looked at.
NewManagerReturnWatch(p) ==
    /\ mgr = "constructing"
    /\ pc[p] = "ret"
    /\ pc' = [pc EXCEPT ![p] = "idle"]
    /\ wpc' = IF autoWatch THEN startWatchers ELSE wpc
    /\ IF res[p] # "ok"
       THEN /\ mgr' = "failed"
            /\ ctorErr' = res[p]
       ELSE /\ mgr' = "live"
            /\ ctorErr' = ctorErr
    /\ ResetLocals(p)
    /\ UNCHANGED <<autoWatch, mconfig, envVars, chanVars, arg, histVars,
                   config, mu>>

\* NewManager after its Reload has returned.
NewManagerReturn(p) ==
    /\ mgr = "constructing"
    /\ pc[p] = "ret"
    /\ pc' = [pc EXCEPT ![p] = "idle"]
    /\ IF res[p] # "ok"
       THEN /\ mgr' = "failed"
            /\ ctorErr' = res[p]
            /\ wpc' = wpc
       ELSE /\ mgr' = "live"
            /\ ctorErr' = ctorErr
            /\ wpc' = IF autoWatch THEN startWatchers ELSE wpc
    /\ ResetLocals(p)
    /\ UNCHANGED <<autoWatch, mconfig, envVars, chanVars, arg, histVars,
                   config, mu>>

\* The goroutine startWatchers started for source i runs: it calls
\* src.Watch(ctx, ch) with ctx = context.Background(). Every source of the
\* repository returns nil from Watch at once ("nil"), and the goroutine goes
\* on to its select on a channel nobody sends to. A Watch that returns an
\* error ("err") makes the goroutine return; a Watch that keeps watching
\* until ctx is cancelled ("run") keeps the goroutine inside the call; a
\* Watch that returns nil and leaves a notifier behind ("async") has the
\* goroutine go on to its select.
Watch(i) ==
    /\ wpc[i] = "spawned"
    /\ wpc' = [wpc EXCEPT ![i] =
                  CASE watchKind[i] \in {"nil", "async"} -> "parked"
                    [] watchKind[i] = "err" -> "done"
                    [] OTHER -> "watching"]
    /\ UNCHANGED <<mgr, autoWatch, mconfig, ctorErr, envVars, chanVars,
                   relVars, notVars, callVars, histVars, config, mu>>

\* A watching source has a change to report and sends on ch. The channel
\* is unbuffered: the send lasts until the goroutine receives.
WatchSignal(i) ==
    /\ \/ wpc[i] = "watching"
       \/ watchKind[i] = "async" /\ wpc[i] \in {"parked", "reload"}
    /\ ~wsig[i]
    /\ wsig' = [wsig EXCEPT ![i] = TRUE]
    /\ UNCHANGED <<watchKind, wfail, pureVars, obsVars,
                   srcData, srcErr, mgrVars, chanVars, relVars, notVars,
                   callVars, histVars, config, mu>>

\* The goroutine's select receives from ch and calls
\* m.Reload(context.Background()).
WatchRecv(i) ==
    /\ i = Watched
    /\ wpc[i] = "parked"
    /\ wsig[i]
    /\ pc[Watcher] = "idle"
    /\ wsig' = [wsig EXCEPT ![i] = FALSE]
    /\ wpc' = [wpc EXCEPT ![i] = "reload"]
    /\ pc' = [pc EXCEPT ![Watcher] = "ckctx"]
    /\ si' = [si EXCEPT ![Watcher] = 1]
    /\ merged' = [merged EXCEPT ![Watcher] = EmptyTree]
    /\ loaded' = [loaded EXCEPT ![Watcher] = <<>>]
    /\ UNCHANGED <<mgr, autoWatch, mconfig, ctorErr, watchKind, wfail,
                   pureVars, obsVars, srcData, srcErr, chanVars, newCfg,
                   oldCfg, towrite, preTree, notVars, ctxDone, arg, res,
                   histVars, config, mu>>

\* Mutant of WatchReloadDone: the goroutine ends when its Reload fails.
WatchReloadDoneFatal(i) ==
    /\ i = Watched
    /\ wpc[i] = "reload"
    /\ pc[Watcher] = "ret"
    /\ pc' = [pc EXCEPT ![Watcher] = "idle"]
    /\ wpc' = [wpc EXCEPT ![i] = IF res[Watcher] \in ErrKinds
                                  THEN "done" ELSE "parked"]
    /\ wfail' = (wfail \/ res[Watcher] \in ErrKinds)
    /\ ResetLocals(Watcher)
    /\ UNCHANGED <<mgr, autoWatch, mconfig, ctorErr, watchKind, wsig,
                   pureVars, obsVars, srcData, srcErr, chanVars,
                   arg, histVars, config, mu>>

\* The goroutine's Reload has returned; its error is dropped and the
\* goroutine is back in the select.
WatchReloadDone(i) ==
    /\ i = Watched
    /\ wpc[i] = "reload"
    /\ pc[Watcher] = "ret"
    /\ pc' = [pc EXCEPT ![Watcher] = "idle"]
    /\ wpc' = [wpc EXCEPT ![i] = "parked"]
    /\ wfail' = (wfail \/ res[Watcher] \in ErrKinds)
    /\ ResetLocals(Watcher)
    /\ UNCHANGED <<mgr, autoWatch, mconfig, ctorErr, watchKind, wsig,
                   pureVars, obsVars, srcData, srcErr, chanVars,
                   arg, histVars, config, mu>>

\* A caller calls Reload(ctx).
EnterReload(p) ==
    /\ mgr = "live"
    /\ pc[p] = "idle"
    /\ pc' = [pc EXCEPT ![p] = "ckctx"]
    /\ si' = [si EXCEPT ![p] = 1]
    /\ merged' = [merged EXCEPT ![p] = EmptyTree]
    /\ loaded' = [loaded EXCEPT ![p] = <<>>]
    /\ UNCHANGED <<mgrVars, srcData, srcErr, srcVars, chanVars, newCfg,
                   oldCfg, towrite, preTree, notVars, ctxDone, arg, res,
                   histVars, config, mu>>

\* The same, in the runs that do not record the history of observations.
CallReload(p) == EnterReload(p) /\ UNCHANGED obsVars

\* The same, recording that no source has changed since this call began.
CallReloadSeen(p) ==
    /\ EnterReload(p)
    /\ fresh' = TRUE
    /\ UNCHANGED <<rcvd, dropped, took>>

\* The caller has the result of its Reload.
ReloadReturn(p) ==
    /\ mgr = "live"
    /\ pc[p] = "ret"
    /\ pc' = [pc EXCEPT ![p] = "idle"]
    /\ ResetLocals(p)
    /\ UNCHANGED <<mgrVars, envVars, chanVars, arg, histVars, config, mu>>

\* The caller's context is cancelled; Reload reads it only in its load loop.
Cancel(p) ==
    /\ mgr = "live"
    /\ pc[p] \in {"ckctx", "load"}
    /\ ~ctxDone[p]
    /\ ctxDone' = [ctxDone EXCEPT ![p] = TRUE]
    /\ UNCHANGED <<mgrVars, envVars, chanVars, relVars, notVars, pc, arg,
                   res, histVars, config, mu>>

\* Mutant of CheckCtx: the context is not looked at.
CheckCtxIgnore(p) ==
    /\ pc[p] = "ckctx"
    /\ pc' = [pc EXCEPT ![p] = "load"]
    /\ UNCHANGED <<res, nfail>>
    /\ UNCHANGED <<mgrVars, envVars, chanVars, relVars, notVars, ctxDone, arg,
                   lastTree, config, mu>>

\* Reload: the select on ctx.Done() before a source's Load.
CheckCtx(p) ==
    /\ pc[p] = "ckctx"
    /\ IF ctxDone[p]
       THEN Return(p, "cancelled")
       ELSE /\ pc' = [pc EXCEPT ![p] = "load"]
            /\ UNCHANGED <<res, nfail>>
    /\ UNCHANGED <<mgrVars, envVars, chanVars, relVars, notVars, ctxDone, arg,
                   lastTree, config, mu>>

\* Mutant of Load: a source whose Load fails is skipped.
LoadSkipFailed(p) ==
    /\ pc[p] = "load"
    /\ IF srcErr[si[p]]
       THEN UNCHANGED <<merged, loaded>>
       ELSE /\ merged' = [merged EXCEPT ![p] = mergeMaps(@, srcData[si[p]])]
            /\ loaded' = [loaded EXCEPT ![p] = Append(@, srcData[si[p]])]
    /\ si' = [si EXCEPT ![p] = @ + 1]
    /\ pc' = [pc EXCEPT ![p] = IF si[p] = NSrc THEN "bind" ELSE "ckctx"]
    /\ UNCHANGED <<res, nfail>>
    /\ UNCHANGED <<mgrVars, envVars, chanVars, newCfg, oldCfg, towrite,
                   preTree, notVars, ctxDone, arg, lastTree, config, mu>>

\* Reload: src.Load and mergeMaps(merged, vals) for the source at si.
Load(p) ==
    /\ pc[p] = "load"
    /\ IF srcErr[si[p]]
       THEN /\ Return(p, "load")
            /\ UNCHANGED <<si, merged, loaded>>
       ELSE /\ merged' = [merged EXCEPT ![p] = mergeMaps(@, srcData[si[p]])]
            /\ loaded' = [loaded EXCEPT ![p] = Append(@, srcData[si[p]])]
            /\ si' = [si EXCEPT ![p] = @ + 1]
            /\ pc' = [pc EXCEPT ![p] = IF si[p] = NSrc THEN "bind" ELSE "ckctx"]
            /\ UNCHANGED <<res, nfail>>
    /\ UNCHANGED <<mgrVars, envVars, chanVars, newCfg, oldCfg, towrite,
                   preTree, notVars, ctxDone, arg, lastTree, config, mu>>

\* Mutant of ReloadBind: a failed Bind takes m.mu and returns without
\* releasing it.
ReloadBindLocked(p) ==
    /\ pc[p] = "bind"
    /\ \E b \in Bind(merged[p]) :
           IF b.stage # "ok"
           THEN /\ Return(p, b.stage)
                /\ mu' = [mu EXCEPT !.w = p]
                /\ UNCHANGED newCfg
           ELSE /\ newCfg' = [newCfg EXCEPT ![p] = b.rec]
                /\ pc' = [pc EXCEPT ![p] = "lock"]
                /\ UNCHANGED <<res, nfail, mu>>
    /\ UNCHANGED <<mgrVars, envVars, chanVars, si, merged, oldCfg, towrite,
                   loaded, preTree, notVars, ctxDone, arg, lastTree, config>>

\* Mutant of ReloadBind: Bind decodes into the live record instead of a new
\* instance.
ReloadBindLive(p) ==
    /\ pc[p] = "bind"
    /\ \E b \in Bind(merged[p]) :
           /\ config' = b.rec
           /\ IF b.stage # "ok"
              THEN /\ Return(p, b.stage)
                   /\ UNCHANGED newCfg
              ELSE /\ newCfg' = [newCfg EXCEPT ![p] = b.rec]
                   /\ pc' = [pc EXCEPT ![p] = "lock"]
                   /\ UNCHANGED <<res, nfail>>
    /\ UNCHANGED <<mgrVars, envVars, chanVars, si, merged, oldCfg, towrite,
                   loaded, preTree, notVars, ctxDone, arg, lastTree, mu>>

\* Mutant of ReloadBind: Bind decodes into a copy of the live record, so a
\* field whose key is absent keeps the live value.
ReloadBindOnto(p) ==
    /\ pc[p] = "bind"
    /\ \E b \in Bind(merged[p]) :
           IF b.stage # "ok"
           THEN /\ Return(p, b.stage)
                /\ UNCHANGED newCfg
           ELSE /\ newCfg' = [newCfg EXCEPT
                                 ![p] = [b.rec EXCEPT
                                           !.Database =
                                              IF Has(merged[p], "database")
                                              THEN @ ELSE config.Database]]
                /\ pc' = [pc EXCEPT ![p] = "lock"]
                /\ UNCHANGED <<res, nfail>>
    /\ UNCHANGED <<mgrVars, envVars, chanVars, si, merged, oldCfg, towrite,
                   loaded, preTree, notVars, ctxDone, arg, lastTree, config,
                   mu>>

\* Reload: the new instance and m.binder.Bind(merged, newCfg).
ReloadBind(p) ==
    /\ pc[p] = "bind"
    /\ \E b \in Bind(merged[p]) :
           IF b.stage # "ok"
           THEN /\ Return(p, b.stage)
                /\ UNCHANGED newCfg
           ELSE /\ newCfg' = [newCfg EXCEPT ![p] = b.rec]
                /\ pc' = [pc EXCEPT ![p] = "lock"]
                /\ UNCHANGED <<res, nfail>>
    /\ UNCHANGED <<mgrVars, envVars, chanVars, si, merged, oldCfg, towrite,
                   loaded, preTree, notVars, ctxDone, arg, lastTree, config,
                   mu>>

\* Mutant of CanLock: Lock does not wait for the lock to be free.
CanLockAlways == TRUE

\* sync.RWMutex: Lock needs no writer and no reader, RLock no writer.
CanLock == mu.w = None /\ mu.r = {}
CanRLock == mu.w = None

\* Mutant of Lock: the live record is not copied into oldCfg under the lock;
\* oldCfg stays as the call found it.
LockNoSnapshot(p) ==
    /\ pc[p] = "lock"
    /\ CanLock
    /\ mu' = [mu EXCEPT !.w = p]
    /\ preTree' = [preTree EXCEPT ![p] = lastTree]
    /\ towrite' = [towrite EXCEPT ![p] = Words]
    /\ pc' = [pc EXCEPT ![p] = "swap"]
    /\ UNCHANGED <<mgrVars, envVars, chanVars, si, merged, newCfg, oldCfg,
                   loaded, notVars, ctxDone, arg, res, histVars, config>>

\* Reload: m.mu.Lock() and the copy of the live record into oldCfg.
Lock(p) ==
    /\ pc[p] = "lock"
    /\ CanLock
    /\ mu' = [mu EXCEPT !.w = p]
    /\ oldCfg' = [oldCfg EXCEPT ![p] = config]
    /\ preTree' = [preTree EXCEPT ![p] = lastTree]
    /\ towrite' = [towrite EXCEPT ![p] = Words]
    /\ pc' = [pc EXCEPT ![p] = "swap"]
    /\ UNCHANGED <<mgrVars, envVars, chanVars, si, merged, newCfg, loaded,
                   notVars, ctxDone, arg, res, histVars, config>>

\* Reload: reflect.ValueOf(m.config).Elem().Set(...), a plain memory copy
\* (memmove) of the struct into the caller's storage. The copy is not
\* atomic and nothing orders its stores for a reader outside m.mu: only a
\* store of one aligned word is indivisible, and the words become visible
\* in any order. One step stores one word.
SwapWord(p, w) ==
    /\ pc[p] = "swap"
    /\ w \in towrite[p]
    /\ config' = StoreWord(config, newCfg[p], w)
    /\ towrite' = [towrite EXCEPT ![p] = @ \ {w}]
    /\ pc' = [pc EXCEPT ![p] = IF towrite[p] = {w} THEN "unlock" ELSE "swap"]
    /\ UNCHANGED <<mgrVars, envVars, chanVars, si, merged, newCfg, oldCfg,
                   loaded, preTree, notVars, ctxDone, arg, res, histVars, mu>>

\* Reload: !reflect.DeepEqual(oldCfg, newCfg), whether to dispatch an event.
Changed(old, new) == old # new

\* Reload: m.mu.Unlock() and the comparison of oldCfg and newCfg.
Unlock(p) ==
    /\ pc[p] = "unlock"
    /\ mu' = [mu EXCEPT !.w = None]
    /\ lastTree' = merged[p]
    /\ IF Changed(oldCfg[p], newCfg[p])
       THEN /\ pc' = [pc EXCEPT ![p] = "rlock"]
            /\ UNCHANGED <<res, nfail>>
       ELSE Return(p, "ok")
    /\ UNCHANGED <<mgrVars, envVars, chanVars, relVars, notVars, ctxDone, arg,
                   config>>

\* notify: m.mu.RLock() and the copy of m.subs.
RLock(p) ==
    /\ pc[p] = "rlock"
    /\ CanRLock
    /\ mu' = [mu EXCEPT !.r = @ \cup {p}]
    /\ snap' = [snap EXCEPT ![p] = subs]
    /\ idx' = [idx EXCEPT ![p] = 1]
    /\ pc' = [pc EXCEPT ![p] = IF subs = <<>> THEN "runlock" ELSE "send"]
    /\ UNCHANGED <<mgrVars, envVars, chanVars, relVars, ctxDone, arg, res,
                   histVars, config>>

\* Mutant of Ready: a parked receiver does not make a channel ready.
ReadyBufferedOnly(k) == Len(chans[k]) < ChanCap(k)

\* A channel takes a value without blocking when a receiver is parked on it
\* or its buffer has room.
Ready(k) == waiting[k] \/ Len(chans[k]) < ChanCap(k)

\* Mutant of Send: a plain ch <- evt, which waits until the channel is ready.
SendBlocking(p) ==
    /\ pc[p] = "send"
    /\ LET k == snap[p][idx[p]]
           evt == diffEvent(oldCfg[p], newCfg[p])
       IN  /\ Ready(k)
           /\ chans' = [chans EXCEPT ![k] = Append(@, evt)]
           /\ waiting' = [waiting EXCEPT ![k] = FALSE]
    /\ idx' = [idx EXCEPT ![p] = @ + 1]
    /\ pc' = [pc EXCEPT ![p] = IF idx[p] = Len(snap[p]) THEN "runlock" ELSE "send"]
    /\ UNCHANGED <<mgrVars, envVars, subs, relVars, snap, ctxDone, arg, res,
                   histVars, config, mu>>

\* notify: select { case ch <- evt: default: } for the subscriber at idx.
\* A value handed to a parked receiver is held in chans until it resumes.
SendEvent(p) ==
    /\ pc[p] = "send"
    /\ LET k == snap[p][idx[p]]
           evt == diffEvent(oldCfg[p], newCfg[p])
       IN  IF Ready(k)
           THEN /\ chans' = [chans EXCEPT ![k] = Append(@, evt)]
                /\ waiting' = [waiting EXCEPT ![k] = FALSE]
           ELSE UNCHANGED <<chans, waiting>>
    /\ idx' = [idx EXCEPT ![p] = @ + 1]
    /\ pc' = [pc EXCEPT ![p] = IF idx[p] = Len(snap[p]) THEN "runlock" ELSE "send"]
    /\ UNCHANGED <<mgrVars, srcData, srcErr, srcVars, subs, relVars, snap,
                   ctxDone, arg, res, histVars, config, mu>>

\* The same, in the runs that do not record the history of observations.
Send(p) == SendEvent(p) /\ UNCHANGED obsVars

\* The same, recording whether the default case was taken for the channel.
SendSeen(p) ==
    /\ SendEvent(p)
    /\ dropped' = [dropped EXCEPT ![snap[p][idx[p]]] =
                       @ \/ ~Ready(snap[p][idx[p]])]
    /\ UNCHANGED <<rcvd, fresh, took>>

\* The same, recording how many times each channel has taken the event of
\* this notify.
SendCounted(p) ==
    /\ SendEvent(p)
    /\ took' = [took EXCEPT ![p] =
                   [k \in 1..MaxSubs |->
                       (IF idx[p] = 1 THEN 0 ELSE took[p][k])
                       + (IF k = snap[p][idx[p]] /\ Ready(k) THEN 1 ELSE 0)]]
    /\ UNCHANGED <<rcvd, dropped, fresh>>

\* notify: the deferred m.mu.RUnlock(); Reload returns nil.
RUnlock(p) ==
    /\ pc[p] = "runlock"
    /\ mu' = [mu EXCEPT !.r = @ \ {p}]
    /\ Return(p, "ok")
    /\ UNCHANGED <<mgrVars, envVars, chanVars, relVars, notVars, ctxDone, arg,
                   lastTree, config>>

\* The Subscribe calls made so far: those that have registered their
\* channel and those that wait for m.mu.
Registrations ==
    Len(subs) + Cardinality({q \in Procs : pc[q] = "sublock"})

\* A caller calls Subscribe(ch) with a channel it has just made or with one
\* made before, subscribed already or about to be: Subscribe takes any
\* channel.
CallSubscribe(p) ==
    /\ mgr = "live"
    /\ pc[p] = "idle"
    /\ Registrations < MaxSubs
    /\ \/ /\ chans' = Append(chans, <<>>)
          /\ waiting' = Append(waiting, FALSE)
          /\ arg' = [arg EXCEPT ![p] = Len(chans) + 1]
       \/ \E k \in 1..Len(chans) :
             /\ arg' = [arg EXCEPT ![p] = k]
             /\ UNCHANGED <<chans, waiting>>
    /\ pc' = [pc EXCEPT ![p] = "sublock"]
    /\ UNCHANGED <<mgrVars, envVars, subs, relVars, notVars, ctxDone, res,
                   histVars, config, mu>>

\* Subscribe: Lock, append to m.subs, Unlock. The channel is appended
\* whether or not m.subs holds it already.
Subscribe(p) ==
    /\ pc[p] = "sublock"
    /\ CanLock
    /\ subs' = Append(subs, arg[p])
    /\ arg' = [arg EXCEPT ![p] = 0]
    /\ pc' = [pc EXCEPT ![p] = "idle"]
    /\ UNCHANGED <<mgrVars, envVars, chans, waiting, relVars, notVars, ctxDone,
                   res, histVars, config, mu>>

\* ------------------------------------------------------------- consumers

\* The consumer of an unbuffered channel blocks in a receive on it. (On a
\* buffered channel a parked consumer changes nothing for the sender: the
\* empty buffer has room.)
Park(k) ==
    /\ k \in 1..Len(chans)
    /\ ChanCap(k) = 0
    /\ chans[k] = <<>>
    /\ ~waiting[k]
    /\ waiting' = [waiting EXCEPT ![k] = TRUE]
    /\ UNCHANGED <<mgrVars, envVars, subs, chans, relVars, notVars, callVars,
                   histVars, config, mu>>

\* The consumer of channel k takes the oldest event.
RecvEvent(k) ==
    /\ k \in 1..Len(chans)
    /\ chans[k] # <<>>
    /\ chans' = [chans EXCEPT ![k] = Tail(@)]
    /\ UNCHANGED <<mgrVars, srcData, srcErr, srcVars, subs, waiting, relVars,
                   notVars, callVars, histVars, config, mu>>

\* The same, in the runs that do not record the history of observations.
Recv(k) == RecvEvent(k) /\ UNCHANGED obsVars

\* The same, recording the event the consumer took.
RecvSeen(k) ==
    /\ RecvEvent(k)
    /\ rcvd' = [rcvd EXCEPT ![k] = Head(chans[k])]
    /\ UNCHANGED <<dropped, fresh, took>>

\* What a caller reading its struct sees: it reads the fields directly,
\* outside m.mu (the Manager has no accessor).
ReaderView == config

\* ------------------------------------------------------------------- App

\* Everything but the App's own state.
managerSide ==
    <<environVars, fileVars, bindVars, diffVars, watchVars, obsVars, srcData,
      srcErr, mgrVars, chanVars, relVars, notVars, callVars, histVars,
      config, mu>>

\* The error a module's Configure, Start or Stop returns when it fails.
ModuleError(op, name) == [kind |-> op, at |-> name, dep |-> ""]

\* Run: order, err := topoSort(a.Modules); an error is returned at once.
\* With no module, the loops over order do nothing and Run waits.
RunTopoSort ==
    /\ apc = "run"
    /\ LET r == topoSort(mods)
       IN  /\ order' = r.out
           /\ runErr' = r.err
           /\ apc' = IF r.err # NoErr THEN "returned"
                     ELSE IF r.out = <<>> THEN "wait" ELSE "configure"
           /\ ai' = IF r.err # NoErr \/ r.out = <<>> THEN 0 ELSE 1
    /\ UNCHANGED <<mods, calls, firstErr, managerSide>>

\* Run: one turn of the Configure loop; the module's Configure fails or not.
Configure ==
    /\ apc = "configure"
    /\ \E ok \in BOOLEAN :
          /\ calls' = Append(calls, [op |-> "Configure",
                                     name |-> order[ai].name, ok |-> ok])
          /\ IF ~ok
             THEN /\ runErr' = ModuleError("Configure", order[ai].name)
                  /\ apc' = "returned"
                  /\ ai' = ai
             ELSE /\ runErr' = runErr
                  /\ apc' = IF ai = Len(order) THEN "start" ELSE "configure"
                  /\ ai' = IF ai = Len(order) THEN 1 ELSE ai + 1
    /\ UNCHANGED <<mods, order, firstErr, managerSide>>

\* Run: one turn of the Start loop; the module's Start fails or not. After
\* the last Start, Run waits for ctx.Done() or a signal.
Start ==
    /\ apc = "start"
    /\ \E ok \in BOOLEAN :
          /\ calls' = Append(calls, [op |-> "Start",
                                     name |-> order[ai].name, ok |-> ok])
          /\ IF ~ok
             THEN /\ runErr' = ModuleError("Start", order[ai].name)
                  /\ apc' = "returned"
                  /\ ai' = ai
             ELSE /\ runErr' = runErr
                  /\ apc' = IF ai = Len(order) THEN "wait" ELSE "start"
                  /\ ai' = IF ai = Len(order) THEN 0 ELSE ai + 1
    /\ UNCHANGED <<mods, order, firstErr, managerSide>>

\* Run: the select returns (the context is done or a signal arrived); the
\* Stop loop starts at the last module, and with no module Run returns.
Shutdown ==
    /\ apc = "wait"
    /\ apc' = IF order = <<>> THEN "returned" ELSE "stop"
    /\ ai' = Len(order)
    /\ UNCHANGED <<mods, order, calls, firstErr, runErr, managerSide>>

\* Mutant of Stop: Run returns the error of a failed Stop at once.
StopAbort ==
    /\ apc = "stop"
    /\ \E ok \in BOOLEAN :
          /\ calls' = Append(calls, [op |-> "Stop",
                                     name |-> order[ai].name, ok |-> ok])
          /\ firstErr' = IF ~ok THEN ModuleError("Stop", order[ai].name)
                         ELSE firstErr
          /\ apc' = IF ai = 1 \/ ~ok THEN "returned" ELSE "stop"
          /\ ai' = ai - 1
          /\ runErr' = IF ai = 1 \/ ~ok THEN firstErr' ELSE runErr
    /\ UNCHANGED <<mods, order, managerSide>>

\* Run: one turn of the Stop loop, from the last module to the first; the
\* module's Stop fails or not; after the first module Run returns firstErr.
Stop ==
    /\ apc = "stop"
    /\ \E ok \in BOOLEAN :
          /\ calls' = Append(calls, [op |-> "Stop",
                                     name |-> order[ai].name, ok |-> ok])
          /\ firstErr' = IF ~ok /\ firstErr = NoErr
                         THEN ModuleError("Stop", order[ai].name)
                         ELSE firstErr
          /\ apc' = IF ai = 1 THEN "returned" ELSE "stop"
          /\ ai' = ai - 1
          /\ runErr' = IF ai = 1 THEN firstErr' ELSE runErr
    /\ UNCHANGED <<mods, order, managerSide>>

\* ------------------------------------------------------------------ Specs

\* The steps of NewManager and of one Reload, by goroutine p.
ReloadSteps(p) ==
    \/ CheckCtx(p)
    \/ Load(p)
    \/ ReloadBind(p)
    \/ Lock(p)
    \/ \E w \in Words : SwapWord(p, w)
    \/ Unlock(p)
    \/ RLock(p)
    \/ Send(p)
    \/ RUnlock(p)

\* One goroutine builds the Manager and then reloads and subscribes, while
\* the sources change, fail and recover and its context may be cancelled.
Next ==
    \/ \E i \in Sources : \E t \in LiveChoices(i) : SetSource(i, t)
    \/ \E i \in ErrSources : SetErr(i)
    \/ NewManager(Ctor)
    \/ NewManagerReturn(Ctor)
    \/ CallReload(Ctor)
    \/ ReloadReturn(Ctor)
    \/ Cancel(Ctor)
    \/ ReloadSteps(Ctor)
    \/ CallSubscribe(Ctor)
    \/ Subscribe(Ctor)
    \/ \E k \in 1..MaxSubs : Park(k)
    \/ \E k \in 1..MaxSubs : Recv(k)

Spec == Init /\ [][Next]_vars

\* Two goroutines reload and subscribe concurrently over working sources.
NextConc ==
    \/ \E i \in Sources : \E t \in ConcChoices(i) : SetSource(i, t)
    \/ NewManager(Ctor)
    \/ NewManagerReturn(Ctor)
    \/ \E p \in Procs : CallReload(p)
    \/ \E p \in Procs : ReloadReturn(p)
    \/ \E p \in Procs : ReloadSteps(p)
    \/ \E p \in Procs : CallSubscribe(p)
    \/ \E p \in Procs : Subscribe(p)
    \/ \E k \in 1..MaxSubs : Park(k)
    \/ \E k \in 1..MaxSubs : Recv(k)

SpecConc == Init /\ [][NextConc]_vars

\* NewManager alone, over every combination of source data and options.
NextNew ==
    \/ NewManager(Ctor)
    \/ NewManagerReturn(Ctor)
    \/ CheckCtx(Ctor)
    \/ Load(Ctor)
    \/ ReloadBind(Ctor)
    \/ Lock(Ctor)
    \/ \E w \in Words : SwapWord(Ctor, w)
    \/ Unlock(Ctor)
    \/ RLock(Ctor)
    \/ RUnlock(Ctor)

SpecNew == InitAny /\ [][NextNew]_vars

\* One goroutine builds the Manager and reloads while another subscribes and
\* the consumers receive, park or do nothing at all.
Subscriber == "c2"
NextLive ==
    \/ \E i \in Sources : \E t \in ConcChoices(i) : SetSource(i, t)
    \/ NewManager(Ctor)
    \/ NewManagerReturn(Ctor)
    \/ CallReload(Ctor)
    \/ ReloadReturn(Ctor)
    \/ ReloadSteps(Ctor)
    \/ CallSubscribe(Subscriber)
    \/ Subscribe(Subscriber)
    \/ \E k \in 1..MaxSubs : Park(k)
    \/ \E k \in 1..MaxSubs : Recv(k)

\* The scheduling the Go runtime gives the two goroutines: a runnable
\* goroutine is run, and a goroutine waiting for m.mu gets it (sync.RWMutex
\* does not starve a waiting writer). Nothing is assumed of the consumers,
\* of the sources changing, or of callers calling again.
Fairness ==
    /\ WF_vars(ReloadSteps(Ctor))
    /\ SF_vars(Subscribe(Subscriber))

SpecLive == Init /\ [][NextLive]_vars /\ Fairness

\* One goroutine builds the Manager and reloads while any of the sources
\* starts or stops failing; nobody subscribes.
NextErr ==
    \/ \E i \in Sources : SetErr(i)
    \/ NewManager(Ctor)
    \/ NewManagerReturn(Ctor)
    \/ CallReload(Ctor)
    \/ ReloadReturn(Ctor)
    \/ CheckCtx(Ctor)
    \/ Load(Ctor)
    \/ ReloadBind(Ctor)
    \/ Lock(Ctor)
    \/ \E w \in Words : SwapWord(Ctor, w)
    \/ Unlock(Ctor)
    \/ RLock(Ctor)
    \/ RUnlock(Ctor)

SpecErr == Init /\ [][NextErr]_vars

\* The load loop of the Reload inside NewManager, over sources that return
\* any trees.
NextMerge ==
    \/ NewManager(Ctor)
    \/ CheckCtx(Ctor)
    \/ Load(Ctor)

SpecMerge == InitMerge /\ [][NextMerge]_vars

\* The watched source's goroutine is in a Reload or about to start one.
WatchDue ==
    \/ wpc[Watched] = "reload"
    \/ wsig[Watched] /\ wpc[Watched] = "parked"

\* One goroutine builds the Manager, with AutoReload on or off, then
\* reloads and subscribes once, while the sources change, fail and recover,
\* the goroutines of the sources run, the watching source signals and its
\* goroutine reloads. The caller calls Reload while no Reload of the
\* goroutine is due, and the source signals between the caller's calls.
NextWatch ==
    \/ \E i \in Sources : \E t \in LiveChoices(i) : SetSource(i, t)
    \/ \E i \in ErrSources : SetErr(i)
    \/ NewManager(Ctor)
    \/ NewManagerReturn(Ctor)
    \/ ~WatchDue /\ CallReload(Ctor)
    \/ ReloadReturn(Ctor)
    \/ ReloadSteps(Ctor)
    \/ chans = <<>> /\ CallSubscribe(Ctor)
    \/ Subscribe(Ctor)
    \/ Recv(1)
    \/ \E i \in Sources : Watch(i)
    \/ \E i \in Sources : pc[Ctor] = "idle" /\ WatchSignal(i)
    \/ \E i \in Sources : WatchRecv(i)
    \/ ReloadSteps(Watcher)
    \/ \E i \in Sources : WatchReloadDone(i)

SpecWatch == InitWatch /\ [][NextWatch]_vars

\* A Reload without subscribers, by goroutine p.
QuietSteps(p) ==
    \/ CheckCtx(p)
    \/ Load(p)
    \/ ReloadBind(p)
    \/ Lock(p)
    \/ \E w \in Words : SwapWord(p, w)
    \/ Unlock(p)
    \/ RLock(p)
    \/ RUnlock(p)

\* One goroutine builds the Manager and reloads while another subscribes,
\* with new channels and with channels subscribed before, and the
\* consumers receive or park; the runs record how many times each channel
\* takes the event of a notify.
NextSubs ==
    \/ \E i \in Sources : \E t \in ConcChoices(i) : SetSource(i, t)
    \/ NewManager(Ctor)
    \/ NewManagerReturn(Ctor)
    \/ CallReload(Ctor)
    \/ ReloadReturn(Ctor)
    \/ QuietSteps(Ctor)
    \/ SendCounted(Ctor)
    \/ CallSubscribe(Subscriber)
    \/ Subscribe(Subscriber)
    \/ \E k \in 1..MaxSubs : Park(k)
    \/ \E k \in 1..MaxSubs : Recv(k)

SpecSubs == Init /\ [][NextSubs]_vars

\* Two goroutines reload concurrently while a source changes and the
\* consumer of one buffered channel, registered while no Reload is under
\* way, receives; the runs record what the
\* consumer received, whether an event was skipped and whether a source
\* changed after the last Reload call.
NextOrder ==
    \/ \E t \in ConcChoices(2) : SetSourceSeen(2, t)
    \/ NewManager(Ctor)
    \/ NewManagerReturn(Ctor)
    \/ \E p \in Procs : CallReloadSeen(p)
    \/ \E p \in Procs : ReloadReturn(p)
    \/ \E p \in Procs : QuietSteps(p)
    \/ \E p \in Procs : SendSeen(p)
    \/ chans = <<>> /\ CallSubscribe(Ctor)
    \/ (\A q \in Procs \ {Ctor} : pc[q] = "idle") /\ Subscribe(Ctor)
    \/ RecvSeen(1)

SpecOrder == Init /\ [][NextOrder]_vars

\* One goroutine builds the Manager and leaves it to the watch goroutines,
\* while the watched source changes and signals; nobody subscribes.
NextWatchLive ==
    \/ \E t \in ConcChoices(Watched) : SetSource(Watched, t)
    \/ NewManager(Ctor)
    \/ NewManagerReturn(Ctor)
    \/ QuietSteps(Ctor)
    \/ \E i \in Sources : Watch(i)
    \/ \E i \in Sources : WatchSignal(i)
    \/ \E i \in Sources : WatchRecv(i)
    \/ QuietSteps(Watcher)
    \/ \E i \in Sources : WatchReloadDone(i)

\* The scheduling the Go runtime gives the goroutines: a runnable goroutine
\* is run. Nothing is assumed of the sources changing or signalling.
WatchFairness ==
    /\ WF_vars(NewManager(Ctor) \/ NewManagerReturn(Ctor) \/ QuietSteps(Ctor))
    /\ WF_vars(QuietSteps(Watcher))
    /\ \A i \in Sources :
          WF_vars(Watch(i) \/ WatchRecv(i) \/ WatchReloadDone(i))

SpecWatchLive == InitWatch /\ [][NextWatchLive]_vars /\ WatchFairness

\* EnvSource.Load alone.
NextEnv == LoadEnvVar

SpecEnv == InitEnv /\ [][NextEnv]_vars

\* Binder.Bind alone.
NextBind == BindCall

SpecBind == InitBind /\ [][NextBind]_vars

\* One goroutine builds the Manager and reloads while the sources gain and
\* lose keys; nobody subscribes.
NextRebind ==
    \/ \E i \in Sources : \E t \in RebindChoices(i) : SetSource(i, t)
    \/ NewManager(Ctor)
    \/ NewManagerReturn(Ctor)
    \/ CallReload(Ctor)
    \/ ReloadReturn(Ctor)
    \/ QuietSteps(Ctor)

SpecRebind == Init /\ [][NextRebind]_vars

\* One goroutine builds the Manager, reloads and subscribes while the keys
\* of the sources change case.
NextCase ==
    \/ \E i \in Sources : \E t \in CaseChoices(i) : SetSource(i, t)
    \/ NewManager(Ctor)
    \/ NewManagerReturn(Ctor)
    \/ CallReload(Ctor)
    \/ ReloadReturn(Ctor)
    \/ ReloadSteps(Ctor)
    \/ CallSubscribe(Ctor)
    \/ Subscribe(Ctor)
    \/ \E k \in 1..MaxSubs : Recv(k)

SpecCase == Init /\ [][NextCase]_vars

\* diffEvent alone.
NextDiff == DiffCall

SpecDiff == InitDiff /\ [][NextDiff]_vars

\* FileSource.Load alone.
NextFile == FileLoad

SpecFile == InitFile /\ [][NextFile]_vars

\* App.Run over every list of modules, each call on a module failing or not.
NextApp ==
    \/ RunTopoSort
    \/ Configure
    \/ Start
    \/ Shutdown
    \/ Stop

SpecApp == InitApp /\ [][NextApp]_vars

\* ---------------------------------------------------------------- claims

\* The positions of a Reload before it takes the lock.
PreLock == {"ckctx", "load", "bind"}

\* C1: a Reload fails only before it takes the lock (a cancelled context, a
\* source's load error, a decode error or a validation error), and no step
\* it takes up to there, the failing one included, changes the live record,
\* the subscriber list or any subscriber channel.
C1_FailedReloadChangesNothing ==
    [][\A p \in Procs :
         /\ (pc[p] \in PreLock /\ pc'[p] # pc[p]) =>
                /\ config' = config
                /\ chans' = chans
                /\ waiting' = waiting
                /\ subs' = subs
         /\ (pc[p] # "ret" /\ pc'[p] = "ret" /\ res'[p] \in ErrKinds) =>
                pc[p] \in PreLock]_vars

\* C1 witness: the live port is 8080, the merged data of a Reload holds
\* port 99999, and the Reload has returned a validate-stage error.
C1_Witness ==
    /\ mgr = "live"
    /\ pc[Ctor] = "ret"
    /\ res[Ctor] = "validate"
    /\ \A d \in decode(merged[Ctor]) : d.rec.Port = Int64(99999)
    /\ config.Port = Int64(8080)

\* C2 (as claimed): while a Reload overwrites the live record a reader of the
\* caller's struct sees either the previous record or the new one, never a
\* mixture, and the Manager points at the caller's struct throughout.
C2_AtomicSwap ==
    /\ mgr = "live" =>
         \A p \in Procs :
            pc[p] = "swap" => ReaderView \in {oldCfg[p], newCfg[p]}
    /\ mgr \in {"constructing", "live"} => mconfig = "cfg"

\* The merged trees of the Reloads so far that are still at hand: that of
\* the latest Reload that swapped and those of the Reloads under way.
MergedTrees == {lastTree} \cup {merged[p] : p \in Procs}

\* C3 (as claimed): once NewManager has returned a Manager, in every state
\* the live record satisfies every declared constraint (Name required;
\* Port required, min, max) and is the record a successful decode and
\* validation of some merged tree gives.
C3_LiveRecordValid ==
    mgr = "live" =>
        /\ validate(config)
        /\ \E tree \in MergedTrees :
              \E b \in Bind(tree) : b.stage = "ok" /\ config = b.rec

\* Whether the tree holds a value at the path (a top-level key, or a key
\* inside a nested tree), and that value.
Defines(tree, path) ==
    IF Len(path) = 1 THEN Has(tree, path[1])
    ELSE /\ Has(tree, path[1])
         /\ tree[path[1]].t = "map"
         /\ Has(tree[path[1]].m, path[2])
ValueAt(tree, path) ==
    IF Len(path) = 1 THEN tree[path[1]] ELSE tree[path[1]].m[path[2]]

\* The value of the last tree in the list that defines the path; Nil if no
\* tree does.
LastDefined(trees, path) ==
    LET D == {j \in 1..Len(trees) : Defines(trees[j], path)}
    IN  IF D = {} THEN Nil
        ELSE ValueAt(trees[CHOOSE j \in D : \A i \in D : i <= j], path)

\* The tree that holds, at every leaf path, the value of the last tree in the
\* list that defines it.
LastWins(trees) ==
    [name |-> LastDefined(trees, <<"name">>),
     port |-> LastDefined(trees, <<"port">>),
     database |-> M([host |-> LastDefined(trees, <<"database", "host">>),
                     port |-> LastDefined(trees, <<"database", "port">>)])]

\* The positions of a Reload after a successful Bind.
Bound(p) ==
    \/ pc[p] \in {"lock", "swap", "unlock", "rlock", "send", "runlock"}
    \/ pc[p] = "ret" /\ res[p] = "ok"

\* C4: a Reload loads the sources in list order (the j-th tree it loads is
\* the j-th source's), and the record it binds holds, for every leaf, the
\* value of the last source in the list that defines that leaf; a leaf only
\* earlier sources define, a sibling inside the nested tree included, keeps
\* the earlier value.
C4_LastSourceWins ==
    \A p \in Procs :
        /\ Len(loaded[p]) <= NSrc
        /\ \A j \in 1..Len(loaded[p]) : loaded[p][j] = srcData[j]
        /\ Bound(p) =>
              /\ Len(loaded[p]) = NSrc
              /\ \E d \in decode(LastWins(loaded[p])) : newCfg[p] = d.rec

\* C4 witness: file {port 8080, database {localhost, 5432}}, env {port 9090,
\* database.host prod} and cli {port 9999} have been bound in that order.
C4_Witness ==
    /\ srcData = <<TFile, TEnv, TCli>>
    /\ pc[Ctor] = "unlock"
    /\ loaded[Ctor] = <<TFile, TEnv, TCli>>
    /\ config = [Name |-> GoString("app"), Port |-> Int64(9999),
                 Database |-> [Host |-> GoString("prod"),
                               Port |-> Int64(5432)]]

\* C5: a Reload whose merged data equals the data of the latest swap before
\* it never enters notify (no subscriber is sent an event), and once its
\* swap is complete the live record equals the record it found.
C5_SameDataNoEvent ==
    \A p \in Procs :
        merged[p] = preTree[p] =>
            /\ pc[p] \notin {"rlock", "send", "runlock"}
            /\ pc[p] \in {"unlock", "ret"} =>
                  /\ newCfg[p] = oldCfg[p]
                  /\ config = oldCfg[p]
                  /\ snap[p] = <<>>
                  /\ idx[p] = 0

\* mergeMaps over all the sources, in list order.
MergeAll ==
    mergeMaps(mergeMaps(mergeMaps(EmptyTree, srcData[1]), srcData[2]),
              srcData[3])

\* What the initial Reload may come to over the sources as they are.
InitialOutcome ==
    IF \E i \in Sources : srcErr[i] THEN {"load"}
    ELSE {b.stage : b \in Bind(MergeAll)}

\* C8: when the initial Reload fails, NewManager returns the error (the load
\* error, or the stage of the BindError) and no Manager, the caller's record
\* is as it was passed in, and no watch goroutine exists whatever AutoReload
\* is; a Manager is returned only when load, decode and validate all pass.
C8_FailedConstruction ==
    /\ mgr = "failed" =>
          /\ ctorErr # "ok"
          /\ ctorErr \in InitialOutcome
          /\ config = ZeroCfg
          /\ \A i \in Sources : wpc[i] = "none"
    /\ mgr = "live" =>
          /\ "ok" \in InitialOutcome
          /\ ctorErr = None

\* C8 witness: NewManager with AutoReload on has failed in the validate
\* stage.
C8_Witness ==
    /\ mgr = "failed"
    /\ autoWatch
    /\ ctorErr = "validate"
    /\ pc[Ctor] = "idle"

\* Whether q is a prefix of s.
IsPrefix(q, s) == Len(q) <= Len(s) /\ \A j \in 1..Len(q) : q[j] = s[j]

\* C9: a failed Reload of a live Manager returns with the lock free, the
\* last-good record in place and the Manager live; no step ever removes a
\* subscriber; a Reload that has loaded every source and whose merged data
\* binds returns success with its record installed, and if that record
\* differs from the one it replaced, notify has gone through the whole
\* subscriber list.
C9_FailureRecoverable ==
    /\ [](nfail => mgr = "live")
    /\ [](\A p \in Procs :
            /\ (mgr = "live" /\ pc[p] = "ret" /\ res[p] \in ErrKinds) =>
                  /\ mu = [w |-> None, r |-> {}]
                  /\ \E b \in Bind(lastTree) : config = b.rec
            /\ (pc[p] = "ret" /\ Len(loaded[p]) = NSrc
                    /\ \A b \in Bind(merged[p]) : b.stage = "ok") =>
                  /\ res[p] = "ok"
                  /\ \E b \in Bind(merged[p]) : config = b.rec
                  /\ oldCfg[p] # newCfg[p] =>
                        /\ idx[p] = Len(snap[p]) + 1
                        /\ snap[p] = subs)
    /\ [][IsPrefix(subs, subs')]_vars

\* C9 witness: after a failed Reload, a Reload of valid data has returned
\* success, its record differs from the last-good one and is installed, and
\* the subscriber's channel holds its event.
C9_Witness ==
    /\ nfail
    /\ pc[Ctor] = "ret"
    /\ res[Ctor] = "ok"
    /\ oldCfg[Ctor] # newCfg[Ctor]
    /\ config = newCfg[Ctor]
    /\ Len(subs) >= 1
    /\ Len(chans[1]) >= 1
    /\ chans[1][Len(chans[1])] = diffEvent(oldCfg[Ctor], newCfg[Ctor])

\* Whether channel k can take a value at once: a receiver is parked on it,
\* or it is buffered and not full.
Accepts(k) == waiting[k] \/ (k % 2 = 1 /\ Len(chans[k]) < Cap)

\* The step of notify's loop that caller p takes for one subscriber.
SendStep(p) == pc[p] = "send" /\ idx'[p] = idx[p] + 1

\* C6 (as claimed): a notify that has gone through the subscriber list has
\* put its event at most once on each channel.
C6_ExactlyOnePerSink ==
    \A p \in Procs :
        (pc[p] = "runlock" /\ snap[p] # <<>>) =>
            \A k \in 1..Len(chans) : took[p][k] <= 1

\* C6 (amended): notify goes once through the registrations made by the
\* time it started, one per Subscribe call (a Reload enters notify only
\* after a swap that changed the record), and at each registration whose
\* channel can take a value it appends exactly one event, the change of
\* this Reload, to that channel and touches no other channel, whatever the
\* state of the other channels; a channel subscribed twice is offered the
\* event twice.
C6_EventToEveryReadySink ==
    /\ [](\A p \in Procs :
            /\ pc[p] \in {"send", "runlock"} =>
                  /\ snap[p] = subs
                  /\ oldCfg[p] # newCfg[p]
                  /\ res[p] = None
            /\ pc[p] = "send" => idx[p] \in 1..Len(snap[p])
            /\ pc[p] = "runlock" => idx[p] = Len(snap[p]) + 1)
    /\ [][\A p \in Procs :
            SendStep(p) =>
                LET k == snap[p][idx[p]]
                IN  /\ Accepts(k) =>
                          chans'[k] = Append(chans[k],
                                             diffEvent(oldCfg[p], newCfg[p]))
                    /\ \A j \in 1..Len(chans) : j # k => chans'[j] = chans[j]
                    /\ Len(chans') = Len(chans)]_vars

\* C6 witness: a Reload's notify has gone through two subscribers and the
\* last value in each one's channel is that Reload's event.
C6_Witness ==
    \E p \in Procs :
        /\ pc[p] = "runlock"
        /\ snap[p] = <<1, 2>>
        /\ \A k \in 1..2 :
              /\ chans[k] # <<>>
              /\ chans[k][Len(chans[k])] = diffEvent(oldCfg[p], newCfg[p])

\* The positions inside a Reload call.
InReload == {"ckctx", "load", "bind", "lock", "swap", "unlock", "rlock",
             "send", "runlock"}

\* C7: at a subscriber whose channel cannot take a value notify drops the
\* event and moves on to the next subscriber (the channels are left as they
\* are); and, without any assumption on the consumers, a Reload call always
\* returns and a Subscribe call made while Reloads run always returns.
C7_NonBlockingDelivery ==
    /\ [][\A p \in Procs :
            (SendStep(p) /\ ~Accepts(snap[p][idx[p]])) =>
                /\ chans' = chans
                /\ waiting' = waiting
                /\ pc'[p] = IF idx[p] = Len(snap[p]) THEN "runlock"
                            ELSE "send"]_vars
    /\ (pc[Ctor] \in InReload) ~> (pc[Ctor] = "ret")
    /\ (pc[Subscriber] = "sublock") ~> (pc[Subscriber] = "idle")

\* C7 witness: notify has gone through two subscribers; the first one's
\* channel was full and still holds only an earlier event, the second one's
\* holds this Reload's event.
C7_Witness ==
    \E p \in Procs :
        /\ pc[p] = "runlock"
        /\ snap[p] = <<1, 2>>
        /\ Len(chans[1]) = Cap
        /\ chans[1][Cap] # diffEvent(oldCfg[p], newCfg[p])
        /\ chans[2] = <<diffEvent(oldCfg[p], newCfg[p])>>

\* The callers that hold m.mu for writing, going by their position.
Swapping == {p \in Procs : pc[p] \in {"swap", "unlock"}}

\* C10: at most one Reload is between Lock and Unlock at a time; while it
\* is, every word of the live record is either the one that Reload found
\* or the one it bound; when it has copied all words the live record is
\* its record; and whenever no Reload is in its swap the live record is the
\* complete record bound from the data of the latest Reload that swapped.
C10_SwapsExclusive ==
    /\ Cardinality(Swapping) <= 1
    /\ \A p \in Procs :
          /\ p \in Swapping => mu.w = p
          /\ pc[p] = "swap" =>
                \A w \in Words :
                    Word(config, w) = IF w \in towrite[p]
                                      THEN Word(oldCfg[p], w)
                                      ELSE Word(newCfg[p], w)
          /\ pc[p] = "unlock" => config = newCfg[p]
    /\ (mgr = "live" /\ Swapping = {}) =>
          /\ mu.w = None
          /\ \E b \in Bind(lastTree) : config = b.rec /\ b.stage = "ok"

\* C10 witness: while one Reload holds the lock with its record fully
\* copied into the live record, another Reload has bound a different record
\* and waits for the lock.
C10_Witness ==
    /\ pc["c1"] = "unlock"
    /\ pc["c2"] = "lock"
    /\ newCfg["c1"] # newCfg["c2"]
    /\ oldCfg["c1"] # newCfg["c1"]
    /\ config = newCfg["c1"]

\* The positions of a Reload from its swap to its return.
AfterLock == {"swap", "unlock", "rlock", "send", "runlock"}

\* C11: the prior record of a Reload is the live record at the step that
\* takes the lock, its new record is the live record at the step that
\* releases it, neither changes until the Reload returns whatever other
\* Reloads swap meanwhile, and every event notify puts on a channel carries
\* exactly these two records, which differ.
C11_EventIsRealDelta ==
    [][\A p \in Procs :
          /\ (pc[p] = "lock" /\ pc'[p] = "swap") => oldCfg'[p] = config
          /\ (pc[p] = "unlock" /\ pc'[p] # "unlock") =>
                /\ config = newCfg[p]
                /\ config' = config
          /\ pc[p] \in AfterLock =>
                /\ oldCfg'[p] = oldCfg[p]
                /\ newCfg'[p] = newCfg[p]
          /\ SendStep(p) =>
                \A k \in 1..Len(chans) :
                    chans'[k] # chans[k] =>
                        LET evt == chans'[k][Len(chans'[k])]
                        IN  /\ evt.OldConfig = oldCfg[p]
                            /\ evt.NewConfig = newCfg[p]
                            /\ evt.OldConfig # evt.NewConfig
                            /\ evt.ChangedKeys # <<>>]_vars

\* C11 witness: two Reloads swapped one right after the other and are both
\* in notify; the later one has put its event on a channel, and the event's
\* prior record is the record the earlier one installed.
C11_Witness ==
    \E p \in Procs : \E q \in Procs \ {p} :
        /\ pc[p] = "runlock"
        /\ pc[q] \in {"rlock", "send", "runlock"}
        /\ oldCfg[p] = newCfg[q]
        /\ Len(chans) >= 1
        /\ chans[1] # <<>>
        /\ chans[1][Len(chans[1])].OldConfig = newCfg[q]
        /\ chans[1][Len(chans[1])].NewConfig = newCfg[p]

\* C12: a Reload loads a source only after a check that found its context
\* not cancelled; a check that finds it cancelled returns the cancellation
\* error at once, with the sources loaded so far being exactly those before
\* the one it was about to load, and that step changes neither the live
\* record nor the subscribers nor any channel.
C12_CancelBeforeEachLoad ==
    /\ [](\A p \in Procs :
            (pc[p] = "ret" /\ res[p] = "cancelled") =>
                /\ ctxDone[p]
                /\ Len(loaded[p]) < NSrc
                /\ Len(loaded[p]) = si[p] - 1)
    /\ [][\A p \in Procs :
            /\ (pc[p] = "ckctx" /\ ctxDone[p] /\ pc'[p] # pc[p]) =>
                  /\ pc'[p] = "ret"
                  /\ res'[p] = "cancelled"
                  /\ loaded'[p] = loaded[p]
                  /\ merged'[p] = merged[p]
                  /\ config' = config
                  /\ subs' = subs
                  /\ chans' = chans
                  /\ waiting' = waiting
            /\ (pc[p] # "load" /\ pc'[p] = "load") =>
                  pc[p] = "ckctx" /\ ~ctxDone[p]
            /\ loaded'[p] # loaded[p] =>
                  pc[p] \in {"load", "ret", "idle"}]_vars

\* C12 witness: the context was cancelled after the first source was loaded
\* and the Reload has returned the cancellation error with only that source
\* loaded.
C12_Witness ==
    /\ mgr = "live"
    /\ pc[Ctor] = "ret"
    /\ res[Ctor] = "cancelled"
    /\ loaded[Ctor] = <<srcData[1]>>
    /\ \E b \in Bind(lastTree) : config = b.rec

\* The error a failed Reload returns: for a load error,
\* fmt.Errorf("failed to load config from %s: %w", src.Name(), err) with src
\* the source the loop is at and err what its Load returned.
ErrorOf(p) ==
    IF res[p] = "load"
    THEN [kind |-> "load", name |-> si[p], wraps |-> <<"Load", si[p]>>]
    ELSE [kind |-> res[p], name |-> 0, wraps |-> <<>>]

\* C13: when the Load of the source a Reload is at fails, the Reload returns
\* in that step an error that names that source and wraps its error; the
\* sources before it are the only ones loaded, and nothing was bound,
\* snapshotted or swapped.
C13_LoadErrorAborts ==
    /\ [](\A p \in Procs :
            (pc[p] = "ret" /\ res[p] = "load") =>
                /\ si[p] \in Sources
                /\ Len(loaded[p]) = si[p] - 1
                /\ newCfg[p] = ZeroCfg
                /\ oldCfg[p] = ZeroCfg
                /\ towrite[p] = {}
                /\ mu.w # p)
    /\ [][\A p \in Procs :
            (pc[p] = "load" /\ srcErr[si[p]] /\ pc'[p] # pc[p]) =>
                /\ pc'[p] = "ret"
                /\ ErrorOf(p)' = [kind |-> "load", name |-> si[p],
                                  wraps |-> <<"Load", si[p]>>]
                /\ loaded'[p] = loaded[p]
                /\ config' = config
                /\ lastTree' = lastTree]_vars

\* C13 witness: the second of three sources failed; the Reload has returned
\* the load error naming it, with only the first source loaded.
C13_Witness ==
    /\ mgr = "live"
    /\ pc[Ctor] = "ret"
    /\ res[Ctor] = "load"
    /\ ErrorOf(Ctor).name = 2
    /\ loaded[Ctor] = <<TFile>>
    /\ \E b \in Bind(lastTree) : config = b.rec

\* The step of Reload's loop in which caller p merges a loaded tree.
MergeStep(p) == pc[p] = "load" /\ loaded'[p] # loaded[p]

RECURSIVE MergedAs(_, _, _)
\* r is what the claim says a holds after merging b into it.
MergedAs(r, a, b) ==
    /\ DOMAIN r = DOMAIN a \cup DOMAIN b
    /\ \A k \in DOMAIN r :
          IF k \notin DOMAIN b THEN r[k] = a[k]
          ELSE IF k \in DOMAIN a /\ a[k].t = "map" /\ b[k].t = "map"
               THEN r[k].t = "map" /\ MergedAs(r[k].m, a[k].m, b[k].m)
               ELSE r[k] = b[k]

\* C15: after mergeMaps(A, B), A has the keys of both; a key only in A
\* keeps its value; a key of B holds the recursive merge when both values
\* are trees and B's value wholesale otherwise (tree over scalar, scalar
\* over tree, sequence over sequence).
C15_MergeContract ==
    [][\A p \in Procs :
          MergeStep(p) =>
              MergedAs(merged'[p], merged[p], srcData[si[p]])]_vars

\* C15 witness: a tree with a nested tree and a sequence has been merged
\* into one with a nested tree under the same key; the nested trees were
\* merged key by key two levels down and the sequence was taken as it is.
C15_Witness ==
    /\ Len(loaded[Ctor]) = 2
    /\ loaded[Ctor][1] = [a |-> M([x |-> M([p |-> I(1), q |-> I(2)])])]
    /\ loaded[Ctor][2] =
          [a |-> M([x |-> M([p |-> Nil, r |-> I(3)]), y |-> Q("3")])]
    /\ merged[Ctor] =
          [a |-> M([x |-> M([p |-> Nil, q |-> I(2), r |-> I(3)]),
                    y |-> Q("3")])]

\* C16: a key src sets to nil is nil in dst after the merge, at the top
\* level and inside a nested tree both sides have, and a nil in dst gives
\* way to whatever src sets for the key.
C16_NilOverrides ==
    [][\A p \in Procs :
          MergeStep(p) =>
              LET dst == merged[p]
                  src == srcData[si[p]]
                  out == merged'[p]
              IN  \A k \in DOMAIN src :
                    /\ k \in DOMAIN out
                    /\ src[k] = Nil => out[k] = Nil
                    /\ (k \in DOMAIN dst /\ dst[k] = Nil) => out[k] = src[k]
                    /\ (k \in DOMAIN dst /\ dst[k].t = "map"
                            /\ src[k].t = "map") =>
                          \A j \in DOMAIN src[k].m :
                              /\ j \in DOMAIN out[k].m
                              /\ src[k].m[j] = Nil => out[k].m[j] = Nil]_vars

\* C16 witness: src set a nested key and a top-level key to nil over values
\* dst held; both are nil in the merged tree.
C16_Witness ==
    /\ Len(loaded[Ctor]) = 2
    /\ loaded[Ctor][1] = [a |-> M([x |-> I(1), y |-> I(2)])]
    /\ loaded[Ctor][2] = [a |-> M([x |-> Nil, z |-> S("z")]), b |-> Nil]
    /\ merged[Ctor] =
          [a |-> M([x |-> Nil, y |-> I(2), z |-> S("z")]), b |-> Nil]

\* The heap with dst and src as two separate map objects, dst first, and
\* the objects of each.
HeapOf(dst, src) == Store(Store(<<>>, dst), src)
DstId == 1
SrcId(dst) == Len(Store(<<>>, dst)) + 1
SrcObjects(dst, src) == SrcId(dst)..Len(HeapOf(dst, src))

\* C17: mergeMaps(dst, src) leaves every map object of src, the nested ones
\* included, with the keys and values it had, so src reads as the same tree
\* after the call; dst after the call holds the merged tree.
C17_MergeLeavesSrc ==
    [][\A p \in Procs :
          MergeStep(p) =>
              LET dst == merged[p]
                  src == srcData[si[p]]
                  h0 == HeapOf(dst, src)
                  h1 == mergeMapsH(h0, DstId, SrcId(dst))
              IN  /\ \A id \in SrcObjects(dst, src) : h1[id] = h0[id]
                  /\ Deep(h1, SrcId(dst)) = src
                  /\ Deep(h0, SrcId(dst)) = src
                  /\ Deep(h1, DstId) = merged'[p]]_vars

\* C17 witness: a src with nested trees two levels down has been merged into
\* a dst with nested trees under the same keys, so the merge recursed twice.
C17_Witness ==
    /\ Len(loaded[Ctor]) = 2
    /\ loaded[Ctor][1] = [a |-> M([x |-> M([p |-> I(1), q |-> I(2)])])]
    /\ loaded[Ctor][2] =
          [a |-> M([x |-> M([p |-> Nil, r |-> I(3)]), y |-> Q("3")])]
    /\ Cardinality(SrcObjects(loaded[Ctor][1], loaded[Ctor][2])) = 3
    /\ merged[Ctor] # loaded[Ctor][1]

\* What a tree holds at a path; Absent if the path leads nowhere.
Absent == [t |-> "absent", n |-> 0, s |-> "", m |-> EmptyTree]
RECURSIVE Lookup(_, _)
Lookup(tree, path) ==
    IF path = <<>> THEN M(tree)
    ELSE IF Head(path) \notin DOMAIN tree THEN Absent
    ELSE IF Len(path) = 1 THEN tree[Head(path)]
    ELSE IF tree[Head(path)].t = "map"
         THEN Lookup(tree[Head(path)].m, Tail(path))
         ELSE Absent

\* Whether a proper prefix of the path holds a scalar leaf in the tree.
LeafInTheWay(tree, path) ==
    \E n \in 1..(Len(path) - 1) :
        Lookup(tree, SubSeq(path, 1, n)).t \notin {"map", "absent"}

\* Whether one path is a prefix of the other.
Related(q, r) ==
    \A j \in 1..(IF Len(q) < Len(r) THEN Len(q) ELSE Len(r)) : q[j] = r[j]

\* The paths the variables of this model assign.
ProbePaths == {v.path : v \in EnvVars}

\* C18: an assignment to a path that would descend through a scalar leaf
\* leaves the tree as it is; any other assignment puts the value at its
\* path, under the nested trees already there, and leaves what the tree
\* holds at every unrelated path as it was. (Paths without empty segments.)
C18_LeafBlocksLongerPath ==
    [][(envAt' = envAt + 1) =>
          LET a == osEnv[envAt + 1]
          IN  (\A j \in 1..Len(a.path) : a.path[j] # "") =>
                 IF LeafInTheWay(envTree, a.path)
                 THEN envTree' = envTree
                 ELSE /\ Lookup(envTree', a.path) = S(a.val)
                      /\ \A q \in ProbePaths :
                            ~Related(q, a.path) =>
                                Lookup(envTree', q) = Lookup(envTree, q)]_vars

\* C18 witness: db=mydb then db.host=localhost has been loaded and the tree
\* is {db: mydb}.
C18_Witness ==
    /\ osEnv = <<[path |-> <<"db">>, val |-> "mydb"],
                 [path |-> <<"db", "host">>, val |-> "localhost"]>>
    /\ envAt = 2
    /\ envTree = [db |-> S("mydb")]

\* C19: when a profile is set and both documents are well formed, Load
\* returns no error and a tree whose keys are those of either document;
\* a top-level key of the overlay holds the overlay's whole value, a key
\* only in the base holds the base's value.
C19_OverlayReplacesTopLevel ==
    (fileOut # NotLoaded /\ fs.profile /\ fs.base.st = "ok" /\ fs.prof.st = "ok")
        => /\ fileOut.err = None
           /\ DOMAIN fileOut.tree = DOMAIN fs.base.tree \cup DOMAIN fs.prof.tree
           /\ \A k \in DOMAIN fileOut.tree :
                 fileOut.tree[k] = IF k \in DOMAIN fs.prof.tree
                                   THEN fs.prof.tree[k]
                                   ELSE fs.base.tree[k]

\* C19 witness: base {app: {name: x, port: 8080}} with overlay
\* {app: {port: 9090}} has been loaded as {app: {port: 9090}}.
C19_Witness ==
    /\ fs.profile
    /\ fs.base = [st |-> "ok",
                  tree |-> [app |-> M([name |-> S("x"), port |-> I(8080)])]]
    /\ fs.prof = [st |-> "ok", tree |-> [app |-> M([port |-> I(9090)])]]
    /\ fileOut = [err |-> None, tree |-> [app |-> M([port |-> I(9090)])]]

\* The documents Load reads: the base if it exists, and the overlay if a
\* profile is set, the base was read and the overlay exists.
ReadsOverlay == fs.profile /\ fs.base.st = "ok" /\ fs.prof.st # "missing"

\* C20 (as claimed): whenever a document Load reads is malformed, base or
\* overlay, Load returns a parse error and no tree.
C20_MalformedDocumentFails ==
    (fileOut # NotLoaded /\ (fs.base.st = "bad"
                          \/ (ReadsOverlay /\ fs.prof.st = "bad")))
        => /\ fileOut.err = "parse"
           /\ fileOut.tree = NoTree

\* C14: Bind is decode, then validate. If decode fails the error has Stage
\* "decode" and unwraps to decode's cause, whatever validate would say of
\* the target; if decode succeeds and validate fails the error has Stage
\* "validate" and unwraps to validate's cause; the error is nil exactly
\* when both succeed.
C14_BindStages ==
    (bindOut # NotBound) =>
        \E d \in decode(bindIn) :
        LET e == bindOut.err
        IN  /\ bindOut.target = d.rec
            /\ ~d.ok => /\ e.Stage = "decode"
                        /\ Unwrap(e) = decodeErr(d)
                        /\ Unwrap(e).lib = "mapstructure"
            /\ (d.ok /\ ~validate(d.rec)) =>
                   /\ e.Stage = "validate"
                   /\ Unwrap(e) = validateErr(d.rec)
                   /\ Unwrap(e).lib = "validator"
            /\ (e = NilError) <=> (d.ok /\ validate(d.rec))
            /\ e # NilError => Unwrap(e).at # {}

\* C14 witness: a source map that fails both to decode (port "abc") and,
\* as decoded, to validate (no name) has been reported as a decode error.
C14_Witness ==
    /\ bindIn = [port |-> S("abc")]
    /\ \A d \in decode(bindIn) : ~validate(d.rec)
    /\ bindOut.err = [Stage |-> "decode",
                      Err |-> [lib |-> "mapstructure", at |-> {"port"}]]

\* C21: Load returns the not-found error, and no tree, exactly when the
\* base document exists under neither extension; with a profile set, a
\* well-formed base document and no overlay under either extension, it
\* returns the base document's tree and no error.
C21_MissingBaseAndMissingOverlay ==
    (fileOut # NotLoaded) =>
        LET noBase == fs.base.st = "missing" /\ fs.baseYml.st = "missing"
            noOverlay == fs.prof.st = "missing" /\ fs.profYml.st = "missing"
        IN  /\ noBase => fileOut = [err |-> "notexist", tree |-> NoTree]
            /\ fileOut.err = "notexist" => noBase
            /\ (fs.profile /\ noOverlay /\ fs.base.st = "ok") =>
                   fileOut = [err |-> None, tree |-> fs.base.tree]
            /\ (fs.profile /\ noOverlay /\ fs.base.st = "missing"
                  /\ fs.baseYml.st = "ok") =>
                   fileOut = [err |-> None, tree |-> fs.baseYml.tree]

\* C21 witness: with a profile set and an overlay in place, but no base
\* document under either extension, Load has returned the not-found error.
C21_Witness ==
    /\ fs.profile
    /\ fs.base.st = "missing"
    /\ fs.baseYml.st = "missing"
    /\ fs.prof.st = "ok"
    /\ fileOut = [err |-> "notexist", tree |-> NoTree]

\* C22 (as claimed): when the ctx given to Load is already cancelled, Load
\* returns the cancellation error and no tree.
C22_LoadHonorsCancellation ==
    (fileOut # NotLoaded /\ loadCtx) =>
        fileOut = [err |-> "canceled", tree |-> NoTree]

\* C23 (as claimed): in auto-watch mode, whenever a source's Watch signals
\* a change, its goroutine eventually runs a Reload.
C23_SignalLeadsToReload ==
    \A i \in Sources : (autoWatch /\ wsig[i]) ~> (wpc[i] = "reload")

\* C24 (as claimed): with AutoReload off no goroutine is ever spawned, and
\* the goroutine of a source whose Watch returns nil at once terminates.
C24_NoTaskForTrivialWatch ==
    /\ [](~autoWatch => \A i \in Sources : wpc[i] = "none")
    /\ \A i \in Sources :
          (watchKind[i] = "nil") => <>[](wpc[i] \in {"none", "done"})

\* What a Reload that has returned comes to by the data it loaded itself.
OwnOutcome(p) ==
    IF Len(loaded[p]) < NSrc THEN {"load"}
    ELSE {b.stage : b \in Bind(merged[p])}

Deref(x) == IF x.kind = "ptr" THEN x.to ELSE x

\* Two values that are, after one dereference, struct values of the same
\* type.
SameShape(old, new) ==
    /\ Deref(old).kind = "struct"
    /\ Deref(new).kind = "struct"
    /\ Deref(old).ty = Deref(new).ty

\* C26 (as claimed): on two records of the same shape diffEvent returns, in declaration
\* order, exactly the names of the top-level fields whose values differ, a
\* field with a change inside a nested record once under its own name, and
\* the Event carries the two inputs.
C26_TopLevelChangedKeys ==
    (diffOut # NotDiffed /\ SameShape(diffIn[1], diffIn[2])) =>
        LET of == Deref(diffIn[1]).f
            nf == Deref(diffIn[2]).f
            differ == {j \in 1..Len(of) : of[j].val # nf[j].val}
            keys == diffOut.ChangedKeys
        IN  /\ ~diffOut.panic
            /\ Len(keys) = Cardinality(differ)
            /\ \A j \in differ : \E n \in 1..Len(keys) : keys[n] = of[j].name
            /\ \A n \in 1..Len(keys) : \E j \in differ : keys[n] = of[j].name
            /\ \A m, n \in 1..Len(keys) :
                  m < n => \E i, j \in differ :
                              i < j /\ keys[m] = of[i].name
                                    /\ keys[n] = of[j].name
            /\ diffOut.OldConfig = diffIn[1]
            /\ diffOut.NewConfig = diffIn[2]

\* C27: with a nil old or a nil new, diffEvent returns no changed keys and
\* the two inputs as they were given, whatever the other input is.
C27_NilInputNoChanges ==
    (diffOut # NotDiffed /\ (diffIn[1] = NilAny \/ diffIn[2] = NilAny)) =>
        /\ ~diffOut.panic
        /\ diffOut.ChangedKeys = <<>>
        /\ diffOut.OldConfig = diffIn[1]
        /\ diffOut.NewConfig = diffIn[2]

\* C27 witness: diffEvent of a record with an unexported field and nil has
\* returned the empty Event with both values.
C27_Witness ==
    /\ diffIn[1].kind = "struct"
    /\ \E j \in 1..Len(diffIn[1].f) : ~diffIn[1].f[j].exp
    /\ diffIn[2] = NilAny
    /\ diffOut = [panic |-> FALSE, ChangedKeys |-> <<>>,
                  OldConfig |-> diffIn[1], NewConfig |-> NilAny]

\* C28 (as claimed): diffEvent never panics, and for every pair of inputs
\* that is not two non-nil records of the same shape it returns no changed
\* keys.
C28_NeverRaises ==
    (diffOut # NotDiffed) =>
        /\ ~diffOut.panic
        /\ (\/ diffIn[1] = NilAny
            \/ diffIn[2] = NilAny
            \/ Deref(diffIn[1]).kind # "struct"
            \/ Deref(diffIn[2]).kind # "struct"
            \/ Deref(diffIn[1]).ty # Deref(diffIn[2]).ty)
              => diffOut.ChangedKeys = <<>>

\* The keys among keys that are the tag of a field but for case.
Matching(keys, tags) == {k \in keys : \E f \in tags : EqualFold(k, f)}

\* The keys of a tree that match a field of the record, at both levels.
Known(tree) ==
    [k \in Matching(DOMAIN tree, {"name", "port", "database"}) |->
        IF EqualFold(k, "database") /\ tree[k].t = "map"
        THEN M([j \in Matching(DOMAIN tree[k].m, {"host", "port"}) |->
                  tree[k].m[j]])
        ELSE tree[k]]

\* C29: when a Reload has succeeded, the live record is the binding of its
\* merged tree alone: a field whose key is absent from the tree is zero,
\* whatever the record it replaced held, and the keys that match no field
\* make no difference.
C29_ReloadBindsFreshRecord ==
    (mgr = "live" /\ pc[Ctor] = "ret" /\ res[Ctor] = "ok") =>
        LET t == merged[Ctor]
        IN  /\ Matching(DOMAIN t, {"database"}) = {} =>
                  config.Database = ZeroDatabase
            /\ (Has(t, "database") /\ t["database"].t = "map") =>
                  /\ Matching(DOMAIN t["database"].m, {"host"}) = {} =>
                        config.Database.Host = GoString("")
                  /\ Matching(DOMAIN t["database"].m, {"port"}) = {} =>
                        config.Database.Port = Int64(0)
            /\ \E d \in decode(Known(t)) : config = d.rec

\* C29 witness: a Reload whose merged tree has no database key, but keys
\* that match no field, has replaced a record with a database by one
\* without.
C29_Witness ==
    /\ mgr = "live"
    /\ pc[Ctor] = "ret"
    /\ res[Ctor] = "ok"
    /\ ~Has(merged[Ctor], "database")
    /\ Has(merged[Ctor], "cache")
    /\ oldCfg[Ctor].Database =
          [Host |-> GoString("localhost"), Port |-> Int64(5432)]
    /\ config.Database = ZeroDatabase

\* C30: for a source map whose port is an integer v and whose other keys
\* bind, Bind returns nil with Port = v exactly when v is non-zero and
\* MinPort <= v <= MaxPort, and otherwise a validate-stage BindError.
C30_InclusiveBounds ==
    (bindOut # NotBound /\ Has(bindIn, "port") /\ bindIn["port"].t = "int"
        /\ \A d \in decode(bindIn) : d.ok /\ d.rec.Name # GoString("")) =>
        LET v == bindIn["port"].n
        IN  IF v # 0 /\ MinPort <= v /\ v <= MaxPort
            THEN /\ bindOut.err = NilError
                 /\ bindOut.target.Port = Int64(v)
            ELSE bindOut.err.Stage = "validate"

\* C30 witness: the upper bound itself has been bound without error.
C30_Witness ==
    /\ bindIn = [name |-> S("orders"), port |-> I(MaxPort)]
    /\ bindOut.err = NilError
    /\ bindOut.target.Port = Int64(65535)


\* The top-level fields in which two records differ.
Differing(old, new) == {f \in Fields : old[f] # new[f]}

\* C31: a Reload enters notify exactly when it reached the end of its swap
\* (so it loaded and bound without error) with a prior record that differs
\* from the record it bound; only a notify step adds a value to a channel,
\* each notify offers its one event once at each position of its copy of
\* the subscriber list, and every event put on a channel lists each
\* differing top-level field once and no other field, which is at least
\* one field.
C31_EventIffChanged ==
    /\ [](\A p \in Procs :
            pc[p] \in {"rlock", "send", "runlock"} =>
                /\ res[p] = None
                /\ oldCfg[p] # newCfg[p]
                /\ pc[p] = "send" => idx[p] \in 1..Len(snap[p])
                /\ pc[p] = "runlock" => idx[p] = Len(snap[p]) + 1)
    /\ [][/\ \A p \in Procs :
                /\ (pc[p] = "unlock" /\ pc'[p] # "unlock") =>
                      (pc'[p] = "rlock" <=> oldCfg[p] # newCfg[p])
                /\ pc'[p] = "rlock" => pc[p] \in {"unlock", "rlock"}
                /\ SendStep(p) =>
                      \A k \in 1..Len(chans) :
                          chans'[k] # chans[k] =>
                              LET evt == chans'[k][Len(chans'[k])]
                                  keys == evt.ChangedKeys
                              IN  /\ k = snap[p][idx[p]]
                                  /\ Len(chans'[k]) = Len(chans[k]) + 1
                                  /\ evt.OldConfig = oldCfg[p]
                                  /\ evt.NewConfig = newCfg[p]
                                  /\ keys # <<>>
                                  /\ {keys[i] : i \in 1..Len(keys)} =
                                        Differing(oldCfg[p], newCfg[p])
                                  /\ Len(keys) =
                                        Cardinality(Differing(oldCfg[p],
                                                              newCfg[p]))
          /\ \A k \in 1..Len(chans) :
                Len(chans'[k]) > Len(chans[k]) => \E p \in Procs : SendStep(p)
       ]_vars

\* C31 witness: a Reload whose bound record differs from the record it found
\* in one field but not in another put its event on a subscriber's channel.
C31_Witness ==
    \E p \in Procs :
        /\ pc[p] = "runlock"
        /\ Len(snap[p]) >= 1
        /\ Differing(oldCfg[p], newCfg[p]) \notin {{}, Fields}
        /\ chans[snap[p][1]] # <<>>
        /\ LET c == chans[snap[p][1]]
           IN  /\ c[Len(c)].OldConfig = oldCfg[p]
               /\ c[Len(c)].NewConfig = newCfg[p]

\* No goroutine is inside Reload or Subscribe.
AllReturned == \A p \in Procs : pc[p] = "idle"

\* C32: a consumer whose channel never made notify skip an event receives
\* the events in the order of the swaps: each event it takes has as old
\* record the new record of the event it took before, and once every Reload
\* has returned and its channel is empty, the new record of the event it
\* took last is the live record.
C32_EventsInSwapOrder ==
    /\ [][\A k \in 1..Len(chans) :
            (rcvd'[k] # rcvd[k] /\ rcvd[k] # NoEvent /\ ~dropped[k]) =>
                rcvd'[k].OldConfig = rcvd[k].NewConfig]_vars
    /\ [](\A k \in 1..Len(chans) :
            (AllReturned /\ mgr = "live" /\ chans[k] = <<>>
               /\ rcvd[k] # NoEvent /\ ~dropped[k]) =>
                rcvd[k].NewConfig = config)

\* C33: once every Reload has returned without error and no source has
\* changed since the latest Reload call began, the live record is the
\* binding of the sources' current data.
C33_NewestLoadWins ==
    (AllReturned /\ mgr = "live" /\ fresh /\ ~nfail) =>
        \E b \in Bind(MergeAll) : config = b.rec

RECURSIVE StoreAll(_, _)
\* The heap with a fresh map object for each tree of the sequence, one after
\* the other, added.
StoreAll(heap, trees) ==
    IF trees = <<>> THEN heap
    ELSE StoreAll(Store(heap, Head(trees)), Tail(trees))

RECURSIVE RootIds(_, _)
\* The objects StoreAll makes for the trees themselves.
RootIds(heap, trees) ==
    IF trees = <<>> THEN <<>>
    ELSE <<Len(heap) + 1>> \o RootIds(Store(heap, Head(trees)), Tail(trees))

RECURSIVE MergeSeqH(_, _, _)
\* The heap after mergeMaps(acc, t) for each tree object of ids in turn.
MergeSeqH(heap, acc, ids) ==
    IF ids = <<>> THEN heap
    ELSE MergeSeqH(mergeMapsH(heap, acc, Head(ids)), acc, Tail(ids))

\* The heap of a Reload that has loaded the trees: merged, a fresh empty
\* map, is object 1, and each source's tree is a map of its own.
ReloadHeap(trees) == StoreAll(<<EmptyTree>>, trees)

\* C34: when a Reload has merged the trees its sources returned into its
\* accumulator, one after the other, each of these trees, read through its
\* nested maps, holds what it held when its source returned it.
C34_MergeSequenceLeavesSources ==
    \A p \in Procs :
        LET trees == loaded[p]
            ids == RootIds(<<EmptyTree>>, trees)
            h == MergeSeqH(ReloadHeap(trees), 1, ids)
        IN  \A i \in 1..Len(trees) : Deep(h, ids[i]) = trees[i]

RECURSIVE LoadAll(_, _)
\* The tree after setNestedValue for each pair of the sequence in turn.
LoadAll(tree, pairs) ==
    IF pairs = <<>> THEN tree
    ELSE LoadAll(setNestedValue(tree, Head(pairs).path, Head(pairs).val),
                 Tail(pairs))

\* The orderings of a sequence.
Orderings(seq) ==
    {[i \in 1..Len(seq) |-> seq[f[i]]] :
        f \in {g \in [1..Len(seq) -> 1..Len(seq)] :
                 \A i, j \in 1..Len(seq) : g[i] = g[j] => i = j}}

\* C35: when the loop has been through an environment whose variables have
\* distinct names, the tree it built is the tree the same calls build in
\* any other order.
C35_OrderIndependent ==
    (envAt = Len(osEnv)
       /\ \A i, j \in 1..Len(osEnv) : osEnv[i].path = osEnv[j].path => i = j)
        => \A o \in Orderings(osEnv) : LoadAll(EmptyTree, o) = envTree

\* The non-empty segments of a path.
NonEmpty(path) == SelectSeq(path, LAMBDA s : s # "")

\* C36: a call whose segments are all empty leaves the tree as it is; any
\* other call that does not run into a scalar leaf on its way leaves the
\* value, a string leaf, at the path made of its non-empty segments.
C36_EmptySegmentsSkipped ==
    [][(envAt' = envAt + 1) =>
          LET a == osEnv[envAt + 1]
              ne == NonEmpty(a.path)
          IN  IF ne = <<>>
              THEN envTree' = envTree
              ELSE ~LeafInTheWay(envTree, ne) =>
                       Lookup(envTree', ne) = S(a.val)]_vars

\* The names of a list of modules, and the names a module of the list
\* depends on.
NamesOf(list) == {list[i].name : i \in 1..Len(list)}
DepsOf(list, n) ==
    UNION {{list[i].deps[j] : j \in 1..Len(list[i].deps)} :
              i \in {k \in 1..Len(list) : list[k].name = n}}

RECURSIVE ReachesIn(_, _, _, _)
\* Whether a chain of one to k dependencies leads from a to b.
ReachesIn(list, a, b, k) ==
    /\ k > 0
    /\ \/ b \in DepsOf(list, a)
       \/ \E c \in DepsOf(list, a) \cap NamesOf(list) :
             ReachesIn(list, c, b, k - 1)

UniqueNames(list) ==
    \A i, j \in 1..Len(list) : list[i].name = list[j].name => i = j
AllRegistered(list) ==
    \A n \in NamesOf(list) : DepsOf(list, n) \subseteq NamesOf(list)
Acyclic(list) ==
    \A n \in NamesOf(list) : ~ReachesIn(list, n, n, Len(list))
WellFormed(list) == UniqueNames(list) /\ AllRegistered(list) /\ Acyclic(list)

\* The position of the module of a name in a list.
PosOf(list, n) == CHOOSE i \in 1..Len(list) : list[i].name = n

\* Run has the outcome of topoSort.
Sorted == apc # "run"

\* C37: for a list of modules with unique names, registered dependencies
\* and no cycle, topoSort returns no error and the modules of the list,
\* each once and after every module it depends on, and it returns the same
\* order for every ordering of the list.
C37_DependenciesFirst ==
    (Sorted /\ WellFormed(mods)) =>
        /\ Len(order) = Len(mods)
        /\ \A i \in 1..Len(mods) : \E j \in 1..Len(order) : order[j] = mods[i]
        /\ \A j \in 1..Len(order) :
              \A d \in DepsOf(mods, order[j].name) : PosOf(order, d) < j
        /\ \A o \in Orderings(mods) :
              topoSort(o) = [err |-> NoErr, out |-> order]

\* C37 witness: modules c (depending on b and a), b (depending on a) and a,
\* passed in this order, have come out as a, b, c.
C37_Witness ==
    /\ mods = <<[name |-> "c", deps |-> <<"b", "a">>],
                [name |-> "b", deps |-> <<"a">>],
                [name |-> "a", deps |-> <<>>]>>
    /\ apc = "configure"
    /\ order = <<mods[3], mods[2], mods[1]>>

\* C38: for a list in which two modules have the same name, a module
\* depends on a name no module has, or the dependencies form a cycle,
\* topoSort returns an error and no order, and Run returns that error
\* without having called Configure or Start on any module.
C38_BadGraphRejected ==
    (Sorted /\ ~WellFormed(mods)) =>
        /\ apc = "returned"
        /\ runErr.kind \in {"duplicate", "missing", "cycle"}
        /\ runErr = topoSort(mods).err
        /\ ~UniqueNames(mods) => runErr.kind = "duplicate"
        /\ order = <<>>
        /\ calls = <<>>

\* C38 witness: Run has returned the duplicate-name error for two modules
\* named a, the missing-dependency error or the cycle error in other runs;
\* here: a module that depends on itself, next to a sound one.
C38_Witness ==
    /\ mods = <<[name |-> "b", deps |-> <<"b">>], [name |-> "a", deps |-> <<>>]>>
    /\ apc = "returned"
    /\ runErr = ErrorsNew("cycle", "b", "")
    /\ calls = <<>>

\* The calls of one kind Run has made, in the order it made them.
CallsOf(op) == SelectSeq(calls, LAMBDA c : c.op = op)
AllOk(cs) == \A i \in 1..Len(cs) : cs[i].ok

\* C39: Run calls Configure on the modules in topoSort's order, Start only
\* after Configure has succeeded on every module and again in that order,
\* and Stop only after every Start has succeeded, in the reverse order;
\* once a Run that reached the shutdown has returned, Stop has been called
\* once on every module whatever Stops failed, and Run has returned the
\* error of the first Stop that failed, or nil.
C39_Lifecycle ==
    LET cfg == CallsOf("Configure")
        st == CallsOf("Start")
        sp == CallsOf("Stop")
        n == Len(order)
    IN  /\ calls = cfg \o st \o sp
        /\ Len(cfg) <= n /\ Len(st) <= n /\ Len(sp) <= n
        /\ \A i \in 1..Len(cfg) : cfg[i].name = order[i].name
        /\ \A i \in 1..Len(st) : st[i].name = order[i].name
        /\ \A i \in 1..Len(sp) : sp[i].name = order[n + 1 - i].name
        /\ st # <<>> => (Len(cfg) = n /\ AllOk(cfg))
        /\ sp # <<>> => (Len(st) = n /\ AllOk(st))
        /\ (apc = "returned" /\ n > 0 /\ Len(st) = n /\ AllOk(st)) =>
              /\ Len(sp) = n
              /\ runErr =
                   IF AllOk(sp) THEN NoErr
                   ELSE LET f == CHOOSE i \in 1..n :
                                    /\ ~sp[i].ok
                                    /\ \A j \in 1..(i - 1) : sp[j].ok
                        IN  ModuleError("Stop", sp[f].name)

\* C39 witness: Run over a, b (depending on a) and c (depending on b) has
\* returned after the shutdown; the Stops of c and of a failed, the Stop of
\* b was still called, and Run returned the error of c's Stop.
C39_Witness ==
    /\ apc = "returned"
    /\ Len(order) = 3
    /\ order[1].name = "a" /\ order[2].name = "b" /\ order[3].name = "c"
    /\ CallsOf("Stop") = <<[op |-> "Stop", name |-> "c", ok |-> FALSE],
                           [op |-> "Stop", name |-> "b", ok |-> TRUE],
                           [op |-> "Stop", name |-> "a", ok |-> FALSE]>>
    /\ runErr = ModuleError("Stop", "c")

\* C40: when Run has returned, every module whose Start it called with
\* success has had Stop called on it afterwards.
C40_StartedIsStopped ==
    apc = "returned" =>
        \A i \in 1..Len(calls) :
            (calls[i].op = "Start" /\ calls[i].ok) =>
                \E j \in (i + 1)..Len(calls) :
                    calls[j].op = "Stop" /\ calls[j].name = calls[i].name
====
